---- MODULE Spec2Model ----
(***************************************************************************)
(* Model of the warehouse consolidation pipeline of                        *)
(* tempCodeRunnerFile.python (class DatabaseConsolidator and main).        *)
(*                                                                         *)
(* Identifiers (store keys, table names, SQL text) are sequences of        *)
(* one-character strings, so that string formatting, str.replace and the   *)
(* SQL parser's view of an identifier are computed, not assumed.           *)
(* Cell values are records [t, v]: t is the SQLite storage class           *)
(* ("int", "real", "text", "null") and v an integer payload.               *)
(***************************************************************************)
EXTENDS Integers, Sequences, FiniteSets, TLC

VARIABLES
    src,      \* the source directory: store key index -> [exists, tables]
    wh,       \* the warehouse file: [exists, tables, views]
    pc,       \* position of main / create_warehouse_database
    i,        \* index of the store the for loop of line 69 is at
    j,        \* index of the table the for loop of line 84 is at
    k,        \* index of the view the for loop of line 179 is at
    tables,   \* the local `tables` (line 81): names listed by get_table_info
    srcConn,  \* store indexes whose source connection is open
    whConn,   \* whether warehouse_conn is open
    log,      \* what the run has printed so far
    hist,     \* history of the steps the run has attempted (ghost)
    run,      \* number of runs started
    prev,     \* the warehouse a previous run without failures left, while
              \* the sources are unchanged since (ghost)
    report,   \* what main printed from get_warehouse_schema
    raised,   \* whether create_warehouse_database raised into main
    ren,      \* inputs and outputs of the table renaming (line 86)
    peak,     \* greatest number of source connections open at once in the
              \* run (ghost)
    soil,     \* transform_soil_nutrient_levels of ELT.ipynb: frames, position
    price,    \* transform_crop_price of ELT.ipynb: frame, position
    weather   \* transform_weather_data of ELT.ipynb: frames, position

vars == <<src, wh, pc, i, j, k, tables, srcConn, whConn, log, hist, run,
          prev, report, raised, ren, peak, soil, price, weather>>

runVars == <<src, wh, pc, i, j, k, tables, srcConn, whConn, log, hist, run,
             prev, report, raised, peak>>

eltVars == <<soil, price, weather>>

----------------------------------------------------------------------------
(* Bounds of the model *)

\* the first EnvStores configured stores may exist in a single-run check
EnvStores == 2
\* the first RebuildStores configured stores may exist in a multi-run check
RebuildStores == 1
\* number of runs of main in a multi-run check
MaxRuns == 2
\* longest table name drawn for the renaming check
MaxNameLen == 2

----------------------------------------------------------------------------
(* Strings *)

Letters ==
    {"a","b","c","d","e","f","g","h","i","j","k","l","m","n","o","p","q",
     "r","s","t","u","v","w","x","y","z",
     "A","B","C","D","E","F","G","H","I","J","K","L","M","N","O","P","Q",
     "R","S","T","U","V","W","X","Y","Z"}

\* characters SQLite accepts in an identifier written without quotes
IdentChars == Letters \cup {"_"}

NoName == << >>

\* source_databases with the key of the fourth store cut to 'crop'
source_databasesShortKey ==
    << <<"c","r","o","p","_","p","r","i","c","e","s">>,
       <<"s","o","i","l","_","h","e","a","l","t","h">>,
       <<"i","r","r","i","g","a","t","i","o","n">>,
       <<"c","r","o","p">>,
       <<"f","e","r","t","i","l","i","z","e","r">>,
       <<"w","e","a","t","h","e","r","_","d","a","t","a">>,
       <<"s","o","i","l","_","t","y","p","e","s">> >>

\* self.source_databases, in insertion order (what .items() iterates)
source_databases ==
    << <<"c","r","o","p","_","p","r","i","c","e","s">>,
       <<"s","o","i","l","_","h","e","a","l","t","h">>,
       <<"i","r","r","i","g","a","t","i","o","n">>,
       <<"c","r","o","p","_","d","a","t","a">>,
       <<"f","e","r","t","i","l","i","z","e","r">>,
       <<"w","e","a","t","h","e","r","_","d","a","t","a">>,
       <<"s","o","i","l","_","t","y","p","e","s">> >>

NStores == Len(source_databases)

Dbs == 1..NStores

\* new_table_name = f"{db_name}_{table_name}"
NewTableName(db_name, table_name) == db_name \o <<"_">> \o table_name

\* s[a..b] as a sequence
Slice(s, a, b) == [n \in 1..(b - a + 1) |-> s[n + a - 1]]

\* whether `sub` occurs in `s` at position p
OccursAt(s, sub, p) ==
    /\ p >= 1
    /\ p + Len(sub) - 1 <= Len(s)
    /\ \A n \in 1..Len(sub) : s[p + n - 1] = sub[n]

\* str.find + 1: position of the first occurrence of `sub` in `s`, 0 if none
Find(s, sub) ==
    IF \E p \in 1..Len(s) : OccursAt(s, sub, p)
    THEN CHOOSE p \in 1..Len(s) :
            /\ OccursAt(s, sub, p)
            /\ \A q \in 1..(p - 1) : ~OccursAt(s, sub, q)
    ELSE 0

\* s.replace(old, new, 1) for a non-empty `old`
Replace1(s, old, new) ==
    LET p == Find(s, old) IN
    IF p = 0 THEN s
    ELSE Slice(s, 1, p - 1) \o new \o Slice(s, p + Len(old), Len(s))

\* an identifier SQLite parses without quotes
IsPlainIdent(name) ==
    /\ Len(name) > 0
    /\ \A n \in 1..Len(name) : name[n] \in IdentChars

Quoted(name) == <<"\"">> \o name \o <<"\"">>

\* the identifier as it stands in the stored CREATE TABLE text
SqlIdent(name) == IF IsPlainIdent(name) THEN name ELSE Quoted(name)

CreatePrefix == <<"C","R","E","A","T","E"," ","T","A","B","L","E"," ">>

----------------------------------------------------------------------------
(* Values, tables and the SQLite / pandas operations the code relies on *)

IntV(n) == [t |-> "int", v |-> n]
RealV(n) == [t |-> "real", v |-> n]
TextV(n) == [t |-> "text", v |-> n]
NullV == [t |-> "null", v |-> 0]

Col(n, ty) == [name |-> n, type |-> ty]

\* column affinity of a declared type (SQLite's rules, for the types used)
Affinity(ty) ==
    IF ty = "INTEGER" THEN "INTEGER"
    ELSE IF ty = "REAL" THEN "REAL"
    ELSE "TEXT"

\* the value SQLite stores when `val` is written to a column declared `ty`
StoreValue(ty, val) ==
    IF val.t = "null" THEN val
    ELSE IF Affinity(ty) = "INTEGER" /\ val.t = "real" THEN IntV(val.v)
    ELSE IF Affinity(ty) = "REAL" /\ val.t = "int" THEN RealV(val.v)
    ELSE IF Affinity(ty) = "TEXT" /\ val.t \in {"int", "real"} THEN TextV(val.v)
    ELSE val

\* get_table_schema: the sql column of sqlite_master for the table; the
\* text up to and including the table name is kept as characters
get_table_schema(table) ==
    [head |-> CreatePrefix \o SqlIdent(table.name), cols |-> table.cols]

\* line 91: schema.replace(table_name, new_table_name, 1); the first
\* occurrence of the name never starts after the name itself, so it lies in
\* the head
RenameSchema(schema, table_name, new_table_name) ==
    [schema EXCEPT !.head = Replace1(schema.head, table_name, new_table_name)]

\* the table name SQLite parses from a CREATE TABLE head, NoName when the
\* text is no CREATE TABLE statement
ParsedTableName(head) ==
    IF ~(Len(head) > Len(CreatePrefix) /\ OccursAt(head, CreatePrefix, 1))
    THEN NoName
    ELSE LET rest == Slice(head, Len(CreatePrefix) + 1, Len(head)) IN
         IF IsPlainIdent(rest) THEN rest
         ELSE IF /\ Len(rest) > 2
                 /\ rest[1] = "\""
                 /\ rest[Len(rest)] = "\""
                 /\ \A n \in 2..(Len(rest) - 1) : rest[n] # "\""
              THEN Slice(rest, 2, Len(rest) - 1)
              ELSE NoName

HasTable(ts, name) == \E tb \in ts : tb.name = name

TableOf(ts, name) == CHOOSE tb \in ts : tb.name = name

\* PRAGMA table_info(<name>) and SELECT * FROM <name> are built without
\* quoting: SQLite rejects them unless the name is a plain identifier
UnquotedNameOk(name) == IsPlainIdent(name)

\* pandas dtype of the n-th column read by read_sql_query
DType(rows, n) ==
    LET kinds == {rows[r][n].t : r \in 1..Len(rows)} IN
    IF kinds = {"int"} THEN "int64"
    ELSE IF kinds # {} /\ kinds # {"null"} /\ kinds \subseteq {"int", "real", "null"}
         THEN "float64"
         ELSE "object"

\* the value pandas holds for a cell of a column of the given dtype
FrameValue(dtype, val) ==
    IF dtype = "float64" /\ val.t = "int" THEN RealV(val.v) ELSE val

\* pd.read_sql_query("SELECT * FROM t"): column names in table order, one
\* dtype per column, the rows converted to it
read_sql_query(table) ==
    [cols |-> [n \in 1..Len(table.cols) |->
                 [name |-> table.cols[n].name, dtype |-> DType(table.rows, n)]],
     rows |-> [r \in 1..Len(table.rows) |->
                 [n \in 1..Len(table.cols) |->
                    FrameValue(DType(table.rows, n), table.rows[r][n])]]]

\* the column type pandas declares for a dtype when it creates a table
SqlTypeOf(dtype) ==
    IF dtype = "int64" THEN "INTEGER"
    ELSE IF dtype = "float64" THEN "REAL"
    ELSE "TEXT"

\* the columns of the table DataFrame.to_sql creates
FrameCols(data) ==
    [n \in 1..Len(data.cols) |-> Col(data.cols[n].name, SqlTypeOf(data.cols[n].dtype))]

\* the rows as stored in a table with columns `cols`
StoredRows(cols, rows) ==
    [r \in 1..Len(rows) |->
        [n \in 1..Len(cols) |-> StoreValue(cols[n].type, rows[r][n])]]

\* to_sql(..., if_exists='replace', index=False): an existing table of that
\* name is dropped, the table is created from the frame's dtypes and the
\* frame's rows are inserted
ToSqlReplace(ts, name, data) ==
    {tb \in ts : tb.name # name} \cup
        {[name |-> name, cols |-> FrameCols(data),
          rows |-> StoredRows(FrameCols(data), data.rows)]}

\* to_sql whose insert fails: the new table stays, the rows are rolled back
ToSqlNoRows(ts, name, data) ==
    {tb \in ts : tb.name # name} \cup
        {[name |-> name, cols |-> FrameCols(data), rows |-> << >>]}

----------------------------------------------------------------------------
(* The views of create_warehouse_views (lines 124-177) *)

T_crop_data_transformed_crop_data ==
    <<"c","r","o","p","_","d","a","t","a","_","t","r","a","n","s","f","o","r","m","e","d","_","c","r","o","p","_","d","a","t","a">>

T_crop_prices_transformed_prices ==
    <<"c","r","o","p","_","p","r","i","c","e","s","_","t","r","a","n","s","f","o","r","m","e","d","_","p","r","i","c","e","s">>

T_irrigation_transformed_irrigation ==
    <<"i","r","r","i","g","a","t","i","o","n","_","t","r","a","n","s","f","o","r","m","e","d","_","i","r","r","i","g","a","t","i","o","n">>

T_soil_health_transformed_soil_health ==
    <<"s","o","i","l","_","h","e","a","l","t","h","_","t","r","a","n","s","f","o","r","m","e","d","_","s","o","i","l","_","h","e","a","l","t","h">>

T_weather_data_transformed_weather ==
    <<"w","e","a","t","h","e","r","_","d","a","t","a","_","t","r","a","n","s","f","o","r","m","e","d","_","w","e","a","t","h","e","r">>

\* the three CREATE VIEW statements: the view's name, the tables and columns
\* its SELECT refers to, and its select list in order
views ==
    << [name |-> <<"v","_","c","r","o","p","_","p","r","i","c","e","s","_","s","o","i","l">>,
        refs |-> {
            [table |-> T_crop_prices_transformed_prices,
             cols |-> {"state", "district", "commodity", "price_per_quintal"}],
            [table |-> T_soil_health_transformed_soil_health,
             cols |-> {"state", "district", "nitrogen_level", "phosphorus_level", "potassium_level"}]},
        select |-> <<
            [table |-> T_crop_prices_transformed_prices, col |-> "state"],
            [table |-> T_crop_prices_transformed_prices, col |-> "district"],
            [table |-> T_crop_prices_transformed_prices, col |-> "commodity"],
            [table |-> T_crop_prices_transformed_prices, col |-> "price_per_quintal"],
            [table |-> T_soil_health_transformed_soil_health, col |-> "nitrogen_level"],
            [table |-> T_soil_health_transformed_soil_health, col |-> "phosphorus_level"],
            [table |-> T_soil_health_transformed_soil_health, col |-> "potassium_level"]>>],
       [name |-> <<"v","_","w","e","a","t","h","e","r","_","i","r","r","i","g","a","t","i","o","n">>,
        refs |-> {
            [table |-> T_weather_data_transformed_weather,
             cols |-> {"state", "district", "date", "temperature_max", "temperature_min", "rainfall"}],
            [table |-> T_irrigation_transformed_irrigation,
             cols |-> {"state", "district", "irrigated_area"}]},
        select |-> <<
            [table |-> T_weather_data_transformed_weather, col |-> "state"],
            [table |-> T_weather_data_transformed_weather, col |-> "district"],
            [table |-> T_weather_data_transformed_weather, col |-> "date"],
            [table |-> T_weather_data_transformed_weather, col |-> "temperature_max"],
            [table |-> T_weather_data_transformed_weather, col |-> "temperature_min"],
            [table |-> T_weather_data_transformed_weather, col |-> "rainfall"],
            [table |-> T_irrigation_transformed_irrigation, col |-> "irrigated_area"]>>],
       [name |-> <<"v","_","c","r","o","p","_","c","o","m","p","r","e","h","e","n","s","i","v","e">>,
        refs |-> {
            [table |-> T_crop_data_transformed_crop_data,
             cols |-> {"state", "district", "crop", "yield_value"}],
            [table |-> T_crop_prices_transformed_prices,
             cols |-> {"state", "district", "price_per_quintal"}],
            [table |-> T_soil_health_transformed_soil_health,
             cols |-> {"state", "district", "nitrogen_level"}],
            [table |-> T_weather_data_transformed_weather,
             cols |-> {"state", "district", "temperature_max", "rainfall"}]},
        select |-> <<
            [table |-> T_crop_data_transformed_crop_data, col |-> "state"],
            [table |-> T_crop_data_transformed_crop_data, col |-> "district"],
            [table |-> T_crop_data_transformed_crop_data, col |-> "crop"],
            [table |-> T_crop_data_transformed_crop_data, col |-> "yield_value"],
            [table |-> T_crop_prices_transformed_prices, col |-> "price_per_quintal"],
            [table |-> T_soil_health_transformed_soil_health, col |-> "nitrogen_level"],
            [table |-> T_weather_data_transformed_weather, col |-> "temperature_max"],
            [table |-> T_weather_data_transformed_weather, col |-> "rainfall"]>>] >>

NViews == Len(views)

\* whether every table and column the view refers to exists: SQLite does
\* not look at them when the view is created, only when it is used
ViewResolves(ts, v) ==
    \A ref \in v.refs :
        /\ HasTable(ts, ref.table)
        /\ ref.cols \subseteq {TableOf(ts, ref.table).cols[n].name :
                                 n \in 1..Len(TableOf(ts, ref.table).cols)}

\* the declared type of a column of a table
ColType(tb, cname) ==
    (CHOOSE c \in {tb.cols[n] : n \in 1..Len(tb.cols)} : c.name = cname).type

\* PRAGMA table_info of a view that resolves: its select list with the
\* types of the columns selected
ViewColumns(ts, v) ==
    [n \in 1..Len(v.select) |->
        Col(v.select[n].col, ColType(TableOf(ts, v.select[n].table), v.select[n].col))]

----------------------------------------------------------------------------
(* Source stores the environment may hold *)

TblP == [name |-> <<"p">>,
         cols |-> <<Col("x", "INTEGER"), Col("y", "VARCHAR")>>,
         rows |-> << <<IntV(1), TextV(100)>>, <<IntV(2), TextV(101)>> >>]

TblQ == [name |-> <<"q">>,
         cols |-> <<Col("n", "INTEGER")>>,
         rows |-> << <<IntV(1)>>, <<NullV>> >>]

TblPv == [name |-> <<"p">>,
          cols |-> <<Col("x", "INTEGER"), Col("y", "VARCHAR")>>,
          rows |-> << <<IntV(3), TextV(102)>> >>]

TblC == [name |-> <<"C">>,
         cols |-> <<Col("n", "INTEGER")>>,
         rows |-> << <<IntV(1)>> >>]

TblSp == [name |-> <<"a", " ", "b">>,
          cols |-> <<Col("n", "INTEGER")>>,
          rows |-> << >>]

TblE == [name |-> <<"e">>,
         cols |-> <<Col("n", "INTEGER")>>,
         rows |-> << >>]

\* contents of a store: its tables in sqlite_master order
SampleStores ==
    { << >>, <<TblP>>, <<TblPv>>, <<TblC, TblQ>>, <<TblSp, TblP>>, <<TblE>> }

NoStore == [exists |-> FALSE, tables |-> << >>]

StoreChoices == {NoStore} \cup {[exists |-> TRUE, tables |-> st] : st \in SampleStores}

\* a store as first found: the second version of table p appears only when
\* a store is replaced between two runs
InitialChoices == StoreChoices \ {[exists |-> TRUE, tables |-> <<TblPv>>]}

\* the source directories in which only the first n configured stores may exist
Configs(n) ==
    {c \in [Dbs -> InitialChoices] : \A d \in Dbs : d > n => c[d] = NoStore}

NoWarehouse == [exists |-> FALSE, tables |-> {}, views |-> {}]

NoReport == [printed |-> FALSE, schema |-> {}]

NoPrev == [valid |-> FALSE, wh |-> NoWarehouse]

NoSoil ==
    [stage |-> "off", macro_df |-> [cols |-> << >>, rows |-> << >>],
     micro_df |-> [cols |-> << >>, rows |-> << >>], n |-> 0,
     macro_results |-> << >>, micro_results |-> << >>, printed |-> << >>,
     Macro_nutrients |-> [cols |-> << >>, rows |-> << >>],
     Micro_nutrients |-> [cols |-> << >>, rows |-> << >>]]

NoPrice ==
    [stage |-> "off", input |-> [cols |-> << >>, rows |-> << >>],
     df |-> [cols |-> << >>, rows |-> << >>], labels |-> << >>,
     paths |-> << >>, raised |-> FALSE,
     crop_prices |-> [cols |-> << >>, rows |-> << >>]]

NoWeather ==
    [stage |-> "off", daily_in |-> << >>, hourly_data |-> << >>,
     current_data |-> << >>, daily_data |-> << >>, hourly_temp_avg |-> << >>,
     combined_data |-> << >>, current_summary |-> << >>, Weather_data |-> << >>]

NoRen == [stage |-> "off", db1 |-> 1, t1 |-> NoName, db2 |-> 1, t2 |-> NoName,
          n1 |-> NoName, n2 |-> NoName]

----------------------------------------------------------------------------
(* What a run prints and what it has attempted *)

Msg(kind, name, n) == [kind |-> kind, name |-> name, n |-> n]

Step(op, a, b, res) == [op |-> op, a |-> a, b |-> b, res |-> res]

Logged(kind) == \E n \in 1..Len(log) : log[n].kind = kind

\* the run reached the handler of line 116
Fatal == Logged("fatal")

\* the steps of the run on which the environment made an operation fail
EnvFailed == \E n \in 1..Len(hist) : hist[n].res = "envfail"

\* get_table_info (lines 38-53): the names of the store's tables, in order
get_table_info(store) == [n \in 1..Len(store.tables) |-> store.tables[n].name]

\* get_table_info raises when PRAGMA table_info rejects one of the names
TableInfoRaises(store) ==
    \E n \in 1..Len(store.tables) : ~UnquotedNameOk(store.tables[n].name)

\* the table of a store with the given name
SrcTable(store, name) ==
    store.tables[CHOOSE n \in 1..Len(store.tables) : store.tables[n].name = name]

\* get_warehouse_schema (lines 191-218) on an open warehouse: one entry per
\* table and view, {} when a PRAGMA raises sqlite3.Error
get_warehouse_schema(w) ==
    IF \/ \E tb \in w.tables : ~UnquotedNameOk(tb.name)
       \/ \E n \in w.views : ~ViewResolves(w.tables, views[n])
    THEN {}
    ELSE {[name |-> tb.name, columns |-> tb.cols] : tb \in w.tables}
         \cup {[name |-> views[n].name, columns |-> ViewColumns(w.tables, views[n])] :
                 n \in w.views}

\* SQL equality of two cells: numbers compare by value whatever their
\* storage class, NULL matches NULL only
SameValue(a, b) ==
    /\ (a.t = "null") = (b.t = "null")
    /\ (a.t = "text") = (b.t = "text")
    /\ a.v = b.v

SameRows(r1, r2) ==
    /\ Len(r1) = Len(r2)
    /\ \A r \in 1..Len(r1) :
          /\ Len(r1[r]) = Len(r2[r])
          /\ \A n \in 1..Len(r1[r]) : SameValue(r1[r][n], r2[r][n])

\* a warehouse table that comes from a table of a store of directory s: its
\* name is the renamed name and its rows are that table's rows, or none
DerivedFrom(s, tb) ==
    \E d \in Dbs :
        /\ s[d].exists
        /\ \E n \in 1..Len(s[d].tables) :
              /\ tb.name = NewTableName(source_databases[d], s[d].tables[n].name)
              /\ (tb.rows = << >> \/ SameRows(tb.rows, s[d].tables[n].rows))

\* Path.unlink that leaves the file in place
unlinkKeeps(w) == w

\* Path.unlink (line 61): the file is gone
unlink(w) == NoWarehouse

----------------------------------------------------------------------------
(* main and create_warehouse_database, one action per step *)

Init ==
    /\ src \in Configs(EnvStores)
    /\ wh = NoWarehouse
    /\ pc = "main"
    /\ i = 0
    /\ j = 0
    /\ k = 0
    /\ tables = << >>
    /\ srcConn = {}
    /\ whConn = FALSE
    /\ log = << >>
    /\ hist = << >>
    /\ run = 0
    /\ prev = NoPrev
    /\ report = NoReport
    /\ raised = FALSE
    /\ ren = NoRen
    /\ peak = 0
    /\ soil = NoSoil
    /\ price = NoPrice
    /\ weather = NoWeather

\* main (lines 223-226): a new process calls create_warehouse_database
StartRun ==
    /\ pc = "main"
    /\ run < MaxRuns
    /\ pc' = "remove"
    /\ run' = run + 1
    /\ UNCHANGED <<src, wh, i, j, k, tables, srcConn, whConn, log, hist, prev,
                   report, raised, ren, peak, eltVars>>

\* lines 116-117: the handler prints the error and the function returns None
FatalReturn(op, said) ==
    /\ log' = Append(said, Msg("fatal", NoName, 0))
    /\ hist' = Append(hist, Step(op, 0, 0, "envfail"))
    /\ raised' = FALSE
    /\ pc' = "returned"

\* lines 59-61 with the run ending once an existing warehouse is removed
RemoveExistingReturns(f) ==
    /\ pc = "remove"
    /\ IF wh.exists
       THEN /\ f = "none"
            /\ wh' = unlink(wh)
            /\ log' = Append(log, Msg("removing", NoName, 0))
            /\ hist' = Append(hist, Step("remove", 0, 0, "ok"))
            /\ pc' = "returned"
            /\ raised' = raised
       ELSE /\ f = "none"
            /\ pc' = "connect"
            /\ UNCHANGED <<wh, log, hist, raised>>
    /\ UNCHANGED <<src, i, j, k, tables, srcConn, whConn, run, prev, report, ren, peak, eltVars>>

\* lines 59-61: remove the existing warehouse; unlink may fail
RemoveExisting(f) ==
    /\ pc = "remove"
    /\ IF wh.exists
       THEN IF f = "fail"
            THEN /\ FatalReturn("remove", Append(log, Msg("removing", NoName, 0)))
                 /\ wh' = wh
            ELSE /\ wh' = unlink(wh)
                 /\ log' = Append(log, Msg("removing", NoName, 0))
                 /\ hist' = Append(hist,
                        Step("remove",
                             Cardinality({tb \in wh.tables : ~DerivedFrom(src, tb)}),
                             0, "ok"))
                 /\ pc' = "connect"
                 /\ raised' = raised
       ELSE /\ f = "none"
            /\ pc' = "connect"
            /\ UNCHANGED <<wh, log, hist, raised>>
    /\ UNCHANGED <<src, i, j, k, tables, srcConn, whConn, run, prev, report, ren, peak, eltVars>>

\* line 64: sqlite3.connect creates and opens the warehouse; it may fail
ConnectWarehouse(f) ==
    /\ pc = "connect"
    /\ IF f = "fail"
       THEN /\ FatalReturn("connect", log)
            /\ UNCHANGED <<wh, whConn, i>>
       ELSE /\ wh' = [wh EXCEPT !.exists = TRUE]
            /\ whConn' = TRUE
            /\ log' = Append(log, Msg("creating", NoName, 0))
            /\ hist' = Append(hist, Step("connect", 0, 0, "ok"))
            /\ i' = 1
            /\ pc' = "store"
            /\ raised' = raised
    /\ UNCHANGED <<src, j, k, tables, srcConn, run, prev, report, ren, peak, eltVars>>

\* where the loop of line 69 goes after store i
AfterStore(n) == IF n >= NStores THEN "views" ELSE "store"

\* the connections still open once line 76 has rebound source_conn: a
\* connection the run no longer refers to is closed at once by a runtime
\* that counts references and kept until a later collection by another one
Rebound(open) == {{}, open}

Max(a, b) == IF a >= b THEN a ELSE b

\* lines 76-81: the store is opened and its tables listed; a failure is
\* logged by the handler of line 107, which does not close the connection,
\* and the loop goes on
OpenExisting(f) ==
    IF f = "connect"
    THEN /\ log' = Append(log, Msg("db_error", source_databases[i], 0))
         /\ hist' = Append(hist, Step("open", i, 0, "envfail"))
         /\ i' = i + 1
         /\ k' = 1
         /\ pc' = AfterStore(i)
         /\ UNCHANGED <<srcConn, tables, j, peak>>
    ELSE \E kept \in Rebound(srcConn) :
         /\ peak' = Max(peak, Cardinality(srcConn) + 1)
         /\ srcConn' = kept \cup {i}
         /\ IF f = "info" \/ TableInfoRaises(src[i])
            THEN /\ log' = Append(Append(log, Msg("processing", source_databases[i], 0)),
                                  Msg("db_error", source_databases[i], 0))
                 /\ hist' = Append(hist, Step("open", i, 0,
                                              IF f = "info" THEN "envfail" ELSE "fail"))
                 /\ i' = i + 1
                 /\ k' = 1
                 /\ pc' = AfterStore(i)
                 /\ UNCHANGED <<tables, j>>
            ELSE /\ tables' = get_table_info(src[i])
                 /\ log' = Append(log, Msg("processing", source_databases[i], 0))
                 /\ hist' = Append(hist, Step("open", i, 0, "ok"))
                 /\ j' = 1
                 /\ pc' = "table"
                 /\ UNCHANGED <<i, k>>

\* lines 69-81 without the test of lines 72-74: sqlite3.connect creates the
\* file of a missing store, which then lists no table
OpenStoreNoExistsCheck(f) ==
    /\ pc = "store"
    /\ IF ~src[i].exists
       THEN /\ f = "none"
            /\ src' = [src EXCEPT ![i] = [exists |-> TRUE, tables |-> << >>]]
            /\ peak' = Max(peak, Cardinality(srcConn) + 1)
            /\ srcConn' = srcConn \cup {i}
            /\ tables' = << >>
            /\ log' = Append(log, Msg("processing", source_databases[i], 0))
            /\ hist' = Append(hist, Step("open", i, 0, "ok"))
            /\ j' = 1
            /\ pc' = "table"
            /\ UNCHANGED <<i, k>>
       ELSE /\ OpenExisting(f)
            /\ src' = src
    /\ UNCHANGED <<wh, whConn, run, prev, report, raised, ren, eltVars>>

\* lines 69-81: the next configured store is skipped when its file is
\* missing, else opened and its tables listed
OpenStore(f) ==
    /\ pc = "store"
    /\ IF ~src[i].exists
       THEN /\ f = "none"
            /\ log' = Append(log, Msg("missing", source_databases[i], 0))
            /\ hist' = Append(hist, Step("skip", i, 0, "ok"))
            /\ i' = i + 1
            /\ k' = 1
            /\ pc' = AfterStore(i)
            /\ UNCHANGED <<srcConn, tables, j, peak>>
       ELSE OpenExisting(f)
    /\ UNCHANGED <<src, wh, whConn, run, prev, report, raised, ren, eltVars>>

\* lines 86-98 for one table: the warehouse tables after the attempt and
\* how it ended. f names the operation the environment makes fail, if any.
CopyOutcome(ts, db_name, source, f) ==
    LET table_name == source.name
        new_table_name == NewTableName(db_name, table_name)
        schema == RenameSchema(get_table_schema(source), table_name, new_table_name)
        created == ParsedTableName(schema.head)
        afterCreate == ts \cup {[name |-> created, cols |-> schema.cols, rows |-> << >>]}
        data == read_sql_query(source)
    IN  IF f = "schema"
        THEN [res |-> "envfail", tables |-> ts, n |-> 0]
        ELSE IF f = "create"
        THEN [res |-> "envfail", tables |-> ts, n |-> 0]
        ELSE IF created = NoName \/ HasTable(ts, created)
        THEN [res |-> "fail", tables |-> ts, n |-> 0]
        ELSE IF f = "read"
        THEN [res |-> "envfail", tables |-> afterCreate, n |-> 0]
        ELSE IF ~UnquotedNameOk(table_name)
        THEN [res |-> "fail", tables |-> afterCreate, n |-> 0]
        ELSE IF f = "replace"
        THEN [res |-> "envfail", tables |-> afterCreate, n |-> 0]
        ELSE IF f = "insert"
        THEN [res |-> "envfail",
              tables |-> ToSqlNoRows(afterCreate, new_table_name, data), n |-> 0]
        ELSE [res |-> "ok",
              tables |-> ToSqlReplace(afterCreate, new_table_name, data),
              n |-> Len(data.rows)]

TableFaults == {"none", "schema", "create", "read", "replace", "insert"}

\* lines 84-103 without the handler of line 102: a failure leaves the
\* table loop and is logged by the handler of line 107
CopyTableNoHandler(f) ==
    /\ pc = "table"
    /\ j <= Len(tables)
    /\ LET out == CopyOutcome(wh.tables, source_databases[i],
                              SrcTable(src[i], tables[j]), f)
       IN  /\ wh' = [wh EXCEPT !.tables = out.tables]
           /\ hist' = Append(hist, Step("table", i, j, out.res))
           /\ IF out.res = "ok"
              THEN /\ log' = Append(log,
                              Msg("copied",
                                  NewTableName(source_databases[i], tables[j]), out.n))
                   /\ j' = j + 1
                   /\ UNCHANGED <<pc, i, k>>
              ELSE /\ log' = Append(log, Msg("db_error", source_databases[i], 0))
                   /\ i' = i + 1
                   /\ k' = 1
                   /\ pc' = AfterStore(i)
                   /\ j' = j
    /\ UNCHANGED <<src, tables, srcConn, whConn, run, prev, report, raised, ren, peak, eltVars>>

\* lines 84-103: one iteration of the table loop; the handler of line 102
\* logs a failure and the loop goes on
CopyTable(f) ==
    /\ pc = "table"
    /\ j <= Len(tables)
    /\ LET out == CopyOutcome(wh.tables, source_databases[i],
                              SrcTable(src[i], tables[j]), f)
       IN  /\ wh' = [wh EXCEPT !.tables = out.tables]
           /\ log' = Append(log,
                        IF out.res = "ok"
                        THEN Msg("copied",
                                 NewTableName(source_databases[i], tables[j]), out.n)
                        ELSE Msg("table_error", tables[j], 0))
           /\ hist' = Append(hist, Step("table", i, j, out.res))
    /\ j' = j + 1
    /\ UNCHANGED <<src, pc, i, k, tables, srcConn, whConn, run, prev, report,
                   raised, ren, peak, eltVars>>

\* line 105: the table loop is over, the source connection is closed
CloseStore ==
    /\ pc = "table"
    /\ j > Len(tables)
    /\ srcConn' = srcConn \ {i}
    /\ hist' = Append(hist, Step("close", i, 0, "ok"))
    /\ i' = i + 1
    /\ k' = 1
    /\ pc' = AfterStore(i)
    /\ UNCHANGED <<src, wh, j, tables, whConn, log, run, prev, report, raised, ren, peak, eltVars>>

\* lines 179-183 without the handler of line 182: a failure leaves the
\* view loop and is logged by the handler of line 188
CreateViewNoHandler(f) ==
    /\ pc = "views"
    /\ LET said == IF k = 1 THEN Append(log, Msg("creating_views", NoName, 0))
                   ELSE log
       IN  IF f = "fail"
           THEN /\ log' = Append(said, Msg("views_error", NoName, 0))
                /\ hist' = Append(hist, Step("view", k, 0, "envfail"))
                /\ wh' = wh
                /\ k' = k
                /\ pc' = "close_wh"
           ELSE /\ log' = said
                /\ hist' = Append(hist, Step("view", k, 0, "ok"))
                /\ wh' = [wh EXCEPT !.views = @ \cup {k}]
                /\ k' = k + 1
                /\ pc' = IF k >= NViews THEN "commit" ELSE "views"
    /\ UNCHANGED <<src, i, j, tables, srcConn, whConn, run, prev, report, raised, ren, peak, eltVars>>

\* lines 179-183: one iteration of the view loop; a failure is logged and
\* the loop goes on
CreateView(f) ==
    /\ pc = "views"
    /\ LET said == IF k = 1 THEN Append(log, Msg("creating_views", NoName, 0))
                   ELSE log
       IN  IF f = "fail"
           THEN /\ log' = Append(said, Msg("view_error", views[k].name, 0))
                /\ hist' = Append(hist, Step("view", k, 0, "envfail"))
                /\ wh' = wh
           ELSE /\ log' = said
                /\ hist' = Append(hist, Step("view", k, 0, "ok"))
                /\ wh' = [wh EXCEPT !.views = @ \cup {k}]
    /\ k' = k + 1
    /\ pc' = IF k >= NViews THEN "commit" ELSE "views"
    /\ UNCHANGED <<src, i, j, tables, srcConn, whConn, run, prev, report, raised, ren, peak, eltVars>>

\* lines 185-189: commit; a failure is caught by the handler of line 188
CommitViews(f) ==
    /\ pc = "commit"
    /\ IF f = "fail"
       THEN /\ log' = Append(log, Msg("views_error", NoName, 0))
            /\ hist' = Append(hist, Step("commit", 0, 0, "envfail"))
       ELSE /\ log' = Append(log, Msg("views_created", NoName, 0))
            /\ hist' = Append(hist, Step("commit", 0, 0, "ok"))
    /\ pc' = "close_wh"
    /\ UNCHANGED <<src, wh, i, j, k, tables, srcConn, whConn, run, prev, report,
                   raised, ren, peak, eltVars>>

\* lines 113-114: the warehouse connection is closed and the function
\* returns; the return drops source_conn, and a connection left open is
\* closed then or kept, as when the name is rebound on line 76
CloseWarehouse ==
    /\ pc = "close_wh"
    /\ whConn' = FALSE
    /\ srcConn' \in Rebound(srcConn)
    /\ log' = Append(log, Msg("success", NoName, 0))
    /\ hist' = Append(hist, Step("close_wh", 0, 0, "ok"))
    /\ raised' = FALSE
    /\ pc' = "returned"
    /\ UNCHANGED <<src, wh, i, j, k, tables, run, prev, report, ren, peak, eltVars>>

\* main, lines 229-237: after the call returned main prints the schema
\* get_warehouse_schema reads (its connect creates a missing file); had the
\* call raised, main would print the fatal error instead
Report(f) ==
    /\ pc = "returned"
    /\ IF raised
       THEN /\ f = "none"
            /\ log' = Append(log, Msg("main_fatal", NoName, 0))
            /\ UNCHANGED <<wh, report>>
       ELSE IF f = "fail"
       THEN /\ log' = Append(Append(log, Msg("schema_header", NoName, 0)),
                             Msg("schema_error", NoName, 0))
            /\ report' = [printed |-> TRUE, schema |-> {}]
            /\ wh' = wh
       ELSE LET w == [wh EXCEPT !.exists = TRUE]
                found == get_warehouse_schema(w)
            IN  /\ wh' = w
                /\ report' = [printed |-> TRUE, schema |-> found]
                /\ log' = IF found = {} /\ (w.tables # {} \/ w.views # {})
                          THEN Append(Append(log, Msg("schema_header", NoName, 0)),
                                      Msg("schema_error", NoName, 0))
                          ELSE Append(log, Msg("schema_header", NoName, 0))
    /\ pc' = "done"
    /\ UNCHANGED <<src, i, j, k, tables, srcConn, whConn, hist, run, prev, raised, ren, peak, eltVars>>

\* the process has ended; main is started again
Restart ==
    /\ pc = "done"
    /\ run < MaxRuns
    /\ pc' = "main"
    /\ prev' = IF EnvFailed THEN NoPrev ELSE [valid |-> TRUE, wh |-> wh]
    /\ i' = 0
    /\ j' = 0
    /\ k' = 0
    /\ tables' = << >>
    /\ srcConn' = {}
    /\ whConn' = FALSE
    /\ log' = << >>
    /\ hist' = << >>
    /\ report' = NoReport
    /\ raised' = FALSE
    /\ peak' = 0
    /\ UNCHANGED <<src, wh, run, ren, eltVars>>

\* between two runs the scripts that feed the source directory replace,
\* create or delete a store
EnvChange ==
    /\ pc = "main"
    /\ run >= 1
    /\ \E d \in 1..RebuildStores : \E st \in StoreChoices :
          /\ src[d] # st
          /\ src' = [src EXCEPT ![d] = st]
    /\ prev' = NoPrev
    /\ UNCHANGED <<wh, pc, i, j, k, tables, srcConn, whConn, log, hist, run,
                   report, raised, ren, peak, eltVars>>

Next ==
    \/ StartRun
    \/ \E f \in {"none", "fail"} : RemoveExisting(f)
    \/ \E f \in {"none", "fail"} : ConnectWarehouse(f)
    \/ \E f \in {"none", "connect", "info"} : OpenStore(f)
    \/ \E f \in TableFaults : CopyTable(f)
    \/ CloseStore
    \/ \E f \in {"none", "fail"} : CreateView(f)
    \/ \E f \in {"none", "fail"} : CommitViews(f)
    \/ CloseWarehouse
    \/ \E f \in {"none", "fail"} : Report(f)

\* one run of main on a source directory
Spec == Init /\ [][Next]_vars

InitRebuild ==
    /\ Init
    /\ src \in Configs(RebuildStores)

NextRebuild ==
    \/ Next
    \/ Restart
    \/ EnvChange

\* several runs of main, the source directory changing in between
SpecRebuild == InitRebuild /\ [][NextRebuild]_vars

----------------------------------------------------------------------------
(* The table renaming of line 86 on its own *)

NameAlphabet == {"a", "_"}

\* table names of at most n characters
ShortNames(n) ==
    UNION {[1..m -> NameAlphabet] : m \in 1..n}

\* what follows an underscore of a configured store key
KeyTails ==
    UNION {{Slice(source_databases[d], p + 1, Len(source_databases[d])) :
              p \in {q \in 1..Len(source_databases[d]) : source_databases[d][q] = "_"}} :
           d \in Dbs}

\* the table names the renaming is tried on: short names, and the names
\* that would collide if a store key were another key cut at an underscore
RenameInputs ==
    ShortNames(MaxNameLen) \cup KeyTails
        \cup {tl \o <<"_">> \o sn : tl \in KeyTails, sn \in ShortNames(1)}

InitRename ==
    /\ src = [d \in Dbs |-> NoStore]
    /\ wh = NoWarehouse
    /\ pc = "main"
    /\ i = 0
    /\ j = 0
    /\ k = 0
    /\ tables = << >>
    /\ srcConn = {}
    /\ whConn = FALSE
    /\ log = << >>
    /\ hist = << >>
    /\ run = 0
    /\ prev = NoPrev
    /\ report = NoReport
    /\ raised = FALSE
    /\ peak = 0
    /\ soil = NoSoil
    /\ price = NoPrice
    /\ weather = NoWeather
    /\ ren \in [stage : {"in"}, db1 : Dbs, t1 : RenameInputs,
                db2 : Dbs, t2 : RenameInputs, n1 : {NoName}, n2 : {NoName}]

\* line 86 applied to two (store, table) pairs
Rename ==
    /\ ren.stage = "in"
    /\ ren' = [ren EXCEPT !.stage = "out",
                          !.n1 = NewTableName(source_databases[ren.db1], ren.t1),
                          !.n2 = NewTableName(source_databases[ren.db2], ren.t2)]
    /\ UNCHANGED <<runVars, eltVars>>

NextRename == Rename

SpecRename == InitRename /\ [][NextRename]_vars

----------------------------------------------------------------------------
(* transform_soil_nutrient_levels of ELT.ipynb *)

\* rows of the frames drawn for the classifier check
MaxSoilRows == 2

macronutrient_categories ==
    <<<<"n", "i", "t", "r", "o", "g", "e", "n">>,
      <<"p", "h", "o", "s", "p", "h", "o", "r", "o", "u", "s">>,
      <<"p", "o", "t", "a", "s", "s", "i", "u", "m">>,
      <<"o", "c">>,
      <<"e", "c">>,
      <<"p", "h">>>>

micronutrient_categories ==
    <<<<"c", "o", "p", "p", "e", "r">>,
      <<"b", "o", "r", "o", "n">>,
      <<"s", "u", "l", "p", "h", "u", "r">>,
      <<"i", "r", "o", "n">>,
      <<"z", "i", "n", "c">>,
      <<"m", "a", "n", "g", "a", "n", "e", "s", "e">>>>

other_columns ==
    <<<<"i", "d">>,
      <<"b", "l", "o", "c", "k">>,
      <<"d", "i", "s", "t", "r", "i", "c", "t">>>>

Unknown == <<"U", "n", "k", "n", "o", "w", "n">>

\* str.startswith
StartsWith(s, prefix) ==
    /\ Len(prefix) <= Len(s)
    /\ Slice(s, 1, Len(prefix)) = prefix

\* s.split("_")[-1]: what follows the last underscore, s itself without one
SplitLast(s) ==
    LET us == {p \in 1..Len(s) : s[p] = "_"}
        last == IF us = {} THEN 0 ELSE CHOOSE p \in us : \A q \in us : q <= p
    IN  Slice(s, last + 1, Len(s))

\* Series.isnull on one value
isnull(val) == val.t = "null"

\* position in the frame of the column called name, 0 when absent
ColumnIndex(df, name) ==
    LET at == {c \in 1..Len(df.cols) : df.cols[c] = name}
    IN  IF at = {} THEN 0 ELSE CHOOSE c \in at : TRUE

\* the list comprehension of lines 188 and 203: the columns of the frame
\* whose name starts with the nutrient's name, in declared order
NutrientColumns(df, nutrient) ==
    {c \in 1..Len(df.cols) : StartsWith(df.cols[c], nutrient)}

\* Series.idxmax over the columns selected: nulls are skipped and the first
\* column in declared order holding the greatest value is returned
idxmax(row, columns) ==
    LET live == {c \in columns : ~isnull(row[c])}
        top == {c \in live : \A d \in live : row[d].v <= row[c].v}
    IN  CHOOSE c \in top : \A d \in top : c <= d

\* lines 193-198
determine_macronutrient_level(df, columns, row) ==
    IF \A c \in columns : isnull(row[c])
    THEN Unknown
    ELSE SplitLast(df.cols[idxmax(row, columns)])

\* lines 208-213
determine_micronutrient_level(df, columns, row) ==
    IF \A c \in columns : isnull(row[c])
    THEN Unknown
    ELSE SplitLast(df.cols[idxmax(row, columns)])

\* pd.concat without axis=1: the frames are stacked, the rows of the
\* identifying columns first with missing labels, then the rows of the
\* labels with missing identifying columns
ConcatFrameAxis0(df, results) ==
    LET n == Len(df.rows)
    IN  [cols |-> other_columns \o [m \in 1..Len(results) |-> results[m].nutrient],
         rows |-> [r \in 1..(IF results = << >> THEN n ELSE 2 * n) |->
                     IF r <= n
                     THEN [ident |-> [c \in 1..Len(other_columns) |->
                                        df.rows[r][ColumnIndex(df, other_columns[c])]],
                           labels |-> [m \in 1..Len(results) |-> << >>]]
                     ELSE [ident |-> [c \in 1..Len(other_columns) |-> NullV],
                           labels |-> [m \in 1..Len(results) |->
                                         results[m].labels[r - n]]]]]

\* pd.concat([df[other_columns], pd.DataFrame(results)], axis=1): the
\* identifying columns of each row followed by its labels, the result
\* columns in the order they were stored
ConcatFrame(df, results) ==
    [cols |-> other_columns \o [n \in 1..Len(results) |-> results[n].nutrient],
     rows |-> [r \in 1..Len(df.rows) |->
                 [ident |-> [c \in 1..Len(other_columns) |->
                                df.rows[r][ColumnIndex(df, other_columns[c])]],
                  labels |-> [n \in 1..Len(results) |-> results[n].labels[r]]]]]

NoFrame == [cols |-> << >>, rows |-> << >>]

\* columns of the macro tables drawn: one with the nitrogen levels, one with
\* a phosphorous level and the ph levels
MacroColsN ==
    <<<<"i", "d">>,
      <<"b", "l", "o", "c", "k">>,
      <<"d", "i", "s", "t", "r", "i", "c", "t">>,
      <<"n", "i", "t", "r", "o", "g", "e", "n", "_", "l", "o", "w">>,
      <<"n", "i", "t", "r", "o", "g", "e", "n", "_", "m", "e", "d", "i", "u", "m">>,
      <<"n", "i", "t", "r", "o", "g", "e", "n", "_", "h", "i", "g", "h">>>>

MacroColsP ==
    <<<<"i", "d">>,
      <<"b", "l", "o", "c", "k">>,
      <<"d", "i", "s", "t", "r", "i", "c", "t">>,
      <<"p", "h", "o", "s", "p", "h", "o", "r", "o", "u", "s", "_", "h", "i", "g", "h">>,
      <<"p", "h", "_", "a", "c", "i", "d", "i", "c">>,
      <<"p", "h", "_", "n", "e", "u", "t", "r", "a", "l">>>>

MicroCols ==
    <<<<"i", "d">>,
      <<"b", "l", "o", "c", "k">>,
      <<"d", "i", "s", "t", "r", "i", "c", "t">>,
      <<"c", "o", "p", "p", "e", "r", "_", "d", "e", "f", "i", "c", "i", "e", "n", "t">>,
      <<"c", "o", "p", "p", "e", "r", "_", "s", "u", "f", "f", "i", "c", "i", "e", "n", "t">>>>

\* the level values drawn for the three level columns of a row: all
\* missing, one value, a greatest value first, last or tied, with and without
\* a missing value
LevelValues ==
    {<<NullV, NullV, NullV>>, <<IntV(1), NullV, NullV>>,
     <<IntV(1), IntV(2), NullV>>, <<IntV(2), IntV(2), IntV(1)>>,
     <<IntV(2), IntV(1), IntV(2)>>, <<NullV, IntV(1), IntV(2)>>,
     <<IntV(1), IntV(1), IntV(2)>>}

\* the rows of a frame of n rows with three identifying columns followed by
\* the level columns: row r has id r, its levels are drawn
SoilRows(n) ==
    {[r \in 1..n |-> <<IntV(r), TextV(r), TextV(0)>> \o lv[r]] :
        lv \in [1..n -> LevelValues]}

SoilFrames(cols) ==
    UNION {{[cols |-> cols, rows |-> rows] : rows \in SoilRows(n)} :
           n \in 1..MaxSoilRows}

MacroFrames == SoilFrames(MacroColsN) \cup SoilFrames(MacroColsP)

MicroFrames ==
    {[cols |-> MicroCols, rows |-> <<row>>] :
        row \in {<<IntV(1), TextV(1), TextV(0), NullV, NullV>>,
                 <<IntV(1), TextV(1), TextV(0), IntV(2), IntV(1)>>,
                 <<IntV(1), TextV(1), TextV(0), IntV(1), IntV(1)>>}}

InitSoil ==
    /\ src = [d \in Dbs |-> NoStore]
    /\ wh = NoWarehouse
    /\ pc = "main"
    /\ i = 0
    /\ j = 0
    /\ k = 0
    /\ tables = << >>
    /\ srcConn = {}
    /\ whConn = FALSE
    /\ log = << >>
    /\ hist = << >>
    /\ run = 0
    /\ prev = NoPrev
    /\ report = NoReport
    /\ raised = FALSE
    /\ peak = 0
    /\ ren = NoRen
    /\ price = NoPrice
    /\ weather = NoWeather
    /\ soil \in [stage : {"macro"}, macro_df : MacroFrames, micro_df : MicroFrames,
                 n : {1}, macro_results : {<< >>}, micro_results : {<< >>},
                 printed : {<< >>}, Macro_nutrients : {NoFrame},
                 Micro_nutrients : {NoFrame}]

\* lines 187-200 without the test of lines 189-191: a category with no
\* column is classified like another one, and over no column
\* values.isnull().all() is true, so every row is labelled Unknown
ClassifyMacroNoSkip ==
    /\ soil.stage = "macro"
    /\ LET nutrient == macronutrient_categories[soil.n]
           columns == NutrientColumns(soil.macro_df, nutrient)
           last == soil.n = Len(macronutrient_categories)
       IN  soil' =
             [soil EXCEPT
                !.macro_results = Append(@,
                   [nutrient |-> nutrient,
                    labels |-> [r \in 1..Len(soil.macro_df.rows) |->
                                  determine_macronutrient_level(
                                      soil.macro_df, columns,
                                      soil.macro_df.rows[r])]]),
                !.n = IF last THEN 1 ELSE @ + 1,
                !.stage = IF last THEN "micro" ELSE @]
    /\ UNCHANGED <<runVars, ren, price, weather>>

\* lines 187-200: one iteration of the loop over the macro categories
ClassifyMacro ==
    /\ soil.stage = "macro"
    /\ LET nutrient == macronutrient_categories[soil.n]
           columns == NutrientColumns(soil.macro_df, nutrient)
           last == soil.n = Len(macronutrient_categories)
       IN  soil' =
             IF columns = {}
             THEN [soil EXCEPT !.printed = Append(@, nutrient),
                               !.n = IF last THEN 1 ELSE @ + 1,
                               !.stage = IF last THEN "micro" ELSE @]
             ELSE [soil EXCEPT
                     !.macro_results = Append(@,
                        [nutrient |-> nutrient,
                         labels |-> [r \in 1..Len(soil.macro_df.rows) |->
                                       determine_macronutrient_level(
                                           soil.macro_df, columns,
                                           soil.macro_df.rows[r])]]),
                     !.n = IF last THEN 1 ELSE @ + 1,
                     !.stage = IF last THEN "micro" ELSE @]
    /\ UNCHANGED <<runVars, ren, price, weather>>

\* lines 202-215: one iteration of the loop over the micro categories
ClassifyMicro ==
    /\ soil.stage = "micro"
    /\ LET nutrient == micronutrient_categories[soil.n]
           columns == NutrientColumns(soil.micro_df, nutrient)
           last == soil.n = Len(micronutrient_categories)
       IN  soil' =
             IF columns = {}
             THEN [soil EXCEPT !.printed = Append(@, nutrient),
                               !.n = IF last THEN 1 ELSE @ + 1,
                               !.stage = IF last THEN "save" ELSE @]
             ELSE [soil EXCEPT
                     !.micro_results = Append(@,
                        [nutrient |-> nutrient,
                         labels |-> [r \in 1..Len(soil.micro_df.rows) |->
                                       determine_micronutrient_level(
                                           soil.micro_df, columns,
                                           soil.micro_df.rows[r])]]),
                     !.n = IF last THEN 1 ELSE @ + 1,
                     !.stage = IF last THEN "save" ELSE @]
    /\ UNCHANGED <<runVars, ren, price, weather>>

\* lines 217-226: the labels are put beside the identifying columns and the
\* two tables saved
SaveSoil ==
    /\ soil.stage = "save"
    /\ soil' = [soil EXCEPT
                  !.Macro_nutrients = ConcatFrame(soil.macro_df, soil.macro_results),
                  !.Micro_nutrients = ConcatFrame(soil.micro_df, soil.micro_results),
                  !.stage = "done"]
    /\ UNCHANGED <<runVars, ren, price, weather>>

NextSoil ==
    \/ ClassifyMacro
    \/ ClassifyMicro
    \/ SaveSoil

SpecSoil == InitSoil /\ [][NextSoil]_vars

----------------------------------------------------------------------------
(* match_commodity_entity and transform_crop_price of ELT.ipynb *)
(* A text is the sequence of its words; the empty text is << >>.           *)

\* rows of the price frames drawn
MaxPriceRows == 2

standard_commodities ==
    <<<<"RICE">>,
      <<"WHEAT">>,
      <<"KHARIF", "SORGHUM">>,
      <<"RABI", "SORGHUM">>,
      <<"SORGHUM">>,
      <<"PEARL", "MILLET">>,
      <<"MAIZE">>,
      <<"FINGER", "MILLET">>,
      <<"BARLEY">>,
      <<"CHICKPEA">>,
      <<"PIGEONPEA">>,
      <<"MINOR", "PULSES">>,
      <<"PULSES">>,
      <<"GROUNDNUT">>,
      <<"SESAMUM">>,
      <<"LINSEED">>,
      <<"SUGARCANE">>,
      <<"COTTON">>,
      <<"FRUITS", "AND", "VEGETABLES">>,
      <<"FODDER">>>>

NChoices == Len(standard_commodities)

\* a cell of the price frame: kind and words
Cell(t, v) == [t |-> t, v |-> v]

NullCell == Cell("null", << >>)

\* str.upper and str.lower on the words drawn
upper(w) ==
    CASE w = "Rice" -> "RICE"
      [] w = "Bitter" -> "BITTER"
      [] w = "Gourd" -> "GOURD"
      [] w = "Local" -> "LOCAL"
      [] w = "None" -> "NONE"
      [] OTHER -> w

lower(w) ==
    CASE w \in {"Rice", "RICE"} -> "rice"
      [] w \in {"Bitter", "BITTER"} -> "bitter"
      [] w \in {"Gourd", "GOURD"} -> "gourd"
      [] w \in {"Local", "LOCAL"} -> "local"
      [] w \in {"None", "NONE"} -> "none"
      [] OTHER -> w

Upper(text) == [n \in 1..Len(text) |-> upper(text[n])]

\* a word made of punctuation only
Punctuation == {"-"}

\* fuzzywuzzy utils.full_process, the processor extractOne applies to the
\* query and to each choice: punctuation becomes white space, the text is
\* lower-cased and stripped
full_process(text) ==
    LET kept == SelectSeq(text, LAMBDA w : w \notin Punctuation)
    IN  [n \in 1..Len(kept) |-> lower(kept[n])]

\* the f-string of line 279: a null cell is formatted as the word None
Format(cell) == IF cell.t = "null" THEN <<"None">> ELSE cell.v

combined_text(commodity, variety) == Format(commodity) \o Format(variety)

\* what doc.ents of line 280 can be: the statistical model may recognise no
\* entity, or entities that are runs of words of the text; only the first
\* is read (line 283)
Spans(text) ==
    {Slice(text, a, b) : a \in 1..Len(text), b \in 1..Len(text)} \ {<< >>}

Entities(text) == {<< >>} \cup {<<Upper(sp)>> : sp \in Spans(text)}

\* the scores fuzz.WRatio can give the choices for a query: 0 for every
\* choice when the processed query is empty, 100 for a choice equal to the
\* query once processed, any value from 0 to 100 otherwise; the tables
\* drawn give one choice, or one choice and the last, a high score and the
\* others a low one
PeakChoices == {1, 2, NChoices}

ScoreTables(query) ==
    IF full_process(query) = << >>
    THEN {[c \in 1..NChoices |-> 0]}
    ELSE {[c \in 1..NChoices |->
             IF full_process(standard_commodities[c]) = full_process(query)
             THEN 100
             ELSE IF c = a \/ (tie /\ c = NChoices) THEN 90 ELSE 50] :
          a \in PeakChoices, tie \in BOOLEAN}

NoMatch == [found |-> FALSE, label |-> << >>]

\* process.extractOne with a score_cutoff: None when no choice reaches it
extractOneCutoff(choices, scores) ==
    LET score_cutoff == 60
        best_list == {c \in 1..Len(choices) : scores[c] >= score_cutoff}
        top == {c \in best_list : \A d \in best_list : scores[d] <= scores[c]}
    IN  IF best_list = {}
        THEN NoMatch
        ELSE [found |-> TRUE,
              label |-> choices[CHOOSE c \in top : \A d \in top : c <= d]]

\* process.extractOne(query, choices): the choices scoring at least
\* score_cutoff (0 by default) are listed in order and max() returns the
\* first one with the greatest score; None when the list is empty
extractOne(choices, scores) ==
    LET score_cutoff == 0
        best_list == {c \in 1..Len(choices) : scores[c] >= score_cutoff}
        top == {c \in best_list : \A d \in best_list : scores[d] <= scores[c]}
    IN  IF best_list = {}
        THEN NoMatch
        ELSE [found |-> TRUE,
              label |-> choices[CHOOSE c \in top : \A d \in top : c <= d]]

\* lines 278-286, given what the entity recogniser and the scorer answer:
\* subscripting the result of extractOne raises when it is None
match_commodity_entity(commodity, variety, entities, scores) ==
    LET best_match == extractOne(standard_commodities, scores)
    IN  [raised |-> ~best_match.found, value |-> best_match.label]

\* the query the scorer is asked about (lines 283 and 286)
MatchQuery(commodity, variety, entities) ==
    IF entities # << >>
    THEN entities[1]
    ELSE Upper(combined_text(commodity, variety))

PriceCols ==
    <<"State", "District", "Market", "Commodity", "Variety", "Grade",
      "Arrival_Date", "Min_Price", "Max_Price", "Modal_Price">>

DroppedCols == {"Market", "Grade", "Arrival_Date", "Modal_Price"}

\* the (Commodity, Variety) texts drawn for a row: both empty, a null
\* variety, punctuation only, two texts
CommodityVariety ==
    {<<Cell("text", << >>), Cell("text", << >>)>>,
     <<Cell("text", <<"Rice">>), NullCell>>,
     <<Cell("text", << >>), Cell("text", <<"-">>)>>,
     <<Cell("text", <<"Bitter", "Gourd">>), Cell("text", <<"Local">>)>>}

PriceRow(commodity, variety) ==
    <<Cell("text", <<"Assam">>), Cell("text", <<"Barpeta">>), Cell("text", <<"m">>),
      commodity, variety, Cell("text", <<"FAQ">>), Cell("text", <<"d">>),
      Cell("real", <<"2600">>), Cell("real", <<"2800">>), Cell("real", <<"2700">>)>>

PriceFrames ==
    UNION {{[cols |-> PriceCols,
             rows |-> [r \in 1..n |-> PriceRow(cv[r][1], cv[r][2])]] :
               cv \in [1..n -> CommodityVariety]} :
           n \in 1..MaxPriceRows}

\* DataFrame.drop(columns=...)
DropFrame(df, dropped) ==
    LET keep == {c \in 1..Len(df.cols) : df.cols[c] \notin dropped}
        Nth(n) == CHOOSE c \in keep : Cardinality({d \in keep : d < c}) = n - 1
    IN  [cols |-> [n \in 1..Cardinality(keep) |-> df.cols[Nth(n)]],
         rows |-> [r \in 1..Len(df.rows) |->
                     [n \in 1..Cardinality(keep) |-> df.rows[r][Nth(n)]]]]

\* df['Commodity'] = labels
AssignColumn(df, name, labels) ==
    [df EXCEPT !.rows = [r \in 1..Len(df.rows) |->
                           [df.rows[r] EXCEPT ![ColumnIndex(df, name)] =
                                                 Cell("text", labels[r])]]]

InitPrice ==
    /\ src = [d \in Dbs |-> NoStore]
    /\ wh = NoWarehouse
    /\ pc = "main"
    /\ i = 0
    /\ j = 0
    /\ k = 0
    /\ tables = << >>
    /\ srcConn = {}
    /\ whConn = FALSE
    /\ log = << >>
    /\ hist = << >>
    /\ run = 0
    /\ prev = NoPrev
    /\ report = NoReport
    /\ raised = FALSE
    /\ peak = 0
    /\ ren = NoRen
    /\ soil = NoSoil
    /\ weather = NoWeather
    /\ price \in [stage : {"drop"}, input : PriceFrames, df : {NoFrame},
                  labels : {<< >>}, paths : {<< >>}, raised : {FALSE},
                  crop_prices : {NoFrame}]

\* line 289
DropColumns ==
    /\ price.stage = "drop"
    /\ price' = [price EXCEPT !.df = DropFrame(price.input, DroppedCols),
                              !.stage = "apply"]
    /\ UNCHANGED <<runVars, ren, soil, weather>>

\* line 290, the lambda applied to the next row
MatchRow ==
    /\ price.stage = "apply"
    /\ Len(price.labels) < Len(price.df.rows)
    /\ LET row == price.df.rows[Len(price.labels) + 1]
           commodity == row[ColumnIndex(price.df, "Commodity")]
           variety == row[ColumnIndex(price.df, "Variety")]
       IN  \E entities \in Entities(combined_text(commodity, variety)) :
           \E scores \in ScoreTables(MatchQuery(commodity, variety, entities)) :
              LET out == match_commodity_entity(commodity, variety, entities, scores)
              IN  price' = [price EXCEPT
                              !.labels = Append(@, out.value),
                              !.paths = Append(@, IF entities # << >> THEN "entity" ELSE "text"),
                              !.raised = @ \/ out.raised,
                              !.stage = IF out.raised THEN "raised" ELSE @]
    /\ UNCHANGED <<runVars, ren, soil, weather>>

\* lines 290-292: the labels become the Commodity column and the frame is
\* saved as crop_prices
SavePrice ==
    /\ price.stage = "apply"
    /\ Len(price.labels) = Len(price.df.rows)
    /\ price' = [price EXCEPT
                   !.crop_prices = AssignColumn(price.df, "Commodity", price.labels),
                   !.stage = "done"]
    /\ UNCHANGED <<runVars, ren, soil, weather>>

NextPrice ==
    \/ DropColumns
    \/ MatchRow
    \/ SavePrice

SpecPrice == InitPrice /\ [][NextPrice]_vars

----------------------------------------------------------------------------
(* transform_weather_data of ELT.ipynb *)
(* A number is a record [null, n, d]: the fraction n/d in lowest terms, or *)
(* the missing value (NaN, None) when null.  A date cell is a record       *)
(* [rep, day]: rep tells what Python object holds the day, a str (what     *)
(* load_db reads from a TEXT column) or a datetime.date.                   *)

\* rows of the daily and of the current-weather frames drawn
MaxWeatherRows == 2

RECURSIVE GCD(_, _)
GCD(a, b) == IF b = 0 THEN a ELSE GCD(b, a % b)

Abs(n) == IF n < 0 THEN -n ELSE n

NaN == [null |-> TRUE, n |-> 0, d |-> 1]

\* n/d (d > 0) in lowest terms
Frac(n, d) ==
    LET g == GCD(Abs(n), d)
    IN  [null |-> FALSE, n |-> n \div g, d |-> d \div g]

Num(n) == Frac(n, 1)

\* arithmetic on columns: a missing operand gives a missing result
Plus(a, b) ==
    IF a.null \/ b.null THEN NaN ELSE Frac(a.n * b.d + b.n * a.d, a.d * b.d)

Minus(a, b) ==
    IF a.null \/ b.null THEN NaN ELSE Frac(a.n * b.d - b.n * a.d, a.d * b.d)

Halved(a) == IF a.null THEN NaN ELSE Frac(a.n, a.d * 2)

RECURSIVE SumOf(_)
SumOf(s) == IF s = << >> THEN Num(0) ELSE Plus(Head(s), SumOf(Tail(s)))

\* Series.mean of a group: the missing values are skipped
mean(s) ==
    LET live == SelectSeq(s, LAMBDA x : ~x.null)
        total == SumOf(live)
    IN  IF live = << >> THEN NaN ELSE Frac(total.n, total.d * Len(live))

\* the members of a set of integers in increasing order (groupby sorts the
\* group keys)
RECURSIVE SortedSeq(_)
SortedSeq(S) ==
    IF S = {}
    THEN << >>
    ELSE LET m == CHOOSE x \in S : \A y \in S : x <= y
         IN  <<m>> \o SortedSeq(S \ {m})

DateCell(rep, day) == [rep |-> rep, day |-> day]

\* pd.to_datetime(timestamp).dt.date: the calendar day of the reading as a
\* datetime.date
to_date(timestamp) == DateCell("date", timestamp.day)

\* lines 88-89 with the parentheses of line 88 left out: max + min / 2
DeriveDailyRowNoParentheses(row) ==
    [location_id |-> row.location_id, date |-> row.date,
     temperature_2m_max |-> row.temperature_2m_max,
     temperature_2m_min |-> row.temperature_2m_min,
     temperature_avg |-> Plus(row.temperature_2m_max, Halved(row.temperature_2m_min)),
     temperature_range |-> Minus(row.temperature_2m_max, row.temperature_2m_min)]

\* lines 88-89: the two derived columns of a daily row
DeriveDailyRow(row) ==
    [location_id |-> row.location_id, date |-> row.date,
     temperature_2m_max |-> row.temperature_2m_max,
     temperature_2m_min |-> row.temperature_2m_min,
     temperature_avg |-> Halved(Plus(row.temperature_2m_max, row.temperature_2m_min)),
     temperature_range |-> Minus(row.temperature_2m_max, row.temperature_2m_min)]

\* a (location_id, day) group key as one integer, and back
KeyBase == 100

GroupKey(location_id, day) == location_id * KeyBase + day

\* line 91 without the groupby of line 92: one row per hourly reading
hourly_readings(hourly_data) ==
    [n \in 1..Len(hourly_data) |->
        [location_id |-> hourly_data[n].location_id,
         date |-> to_date(hourly_data[n].timestamp),
         hourly_temperature_avg |-> hourly_data[n].temperature_2m]]

\* lines 91-93: the date of each reading, then one row per (location_id,
\* date) with the mean of temperature_2m, the keys sorted
hourly_temp_avg(hourly_data) ==
    LET keys == SortedSeq({GroupKey(hourly_data[n].location_id,
                                    to_date(hourly_data[n].timestamp).day) :
                              n \in 1..Len(hourly_data)})
    IN  [g \in 1..Len(keys) |->
           LET loc == keys[g] \div KeyBase
               day == keys[g] % KeyBase
               group == SelectSeq(hourly_data,
                           LAMBDA h : h.location_id = loc /\ h.timestamp.day = day)
           IN  [location_id |-> loc,
                date |-> DateCell("date", day),
                hourly_temperature_avg |->
                    mean([n \in 1..Len(group) |-> group[n].temperature_2m])]]

WithHourly(row, avg) ==
    [location_id |-> row.location_id, date |-> row.date,
     temperature_2m_max |-> row.temperature_2m_max,
     temperature_2m_min |-> row.temperature_2m_min,
     temperature_avg |-> row.temperature_avg,
     temperature_range |-> row.temperature_range,
     hourly_temperature_avg |-> avg]

\* line 95: pd.merge(daily_data, hourly_temp_avg, on=['location_id',
\* 'date'], how='left'): each left row once per right row with equal keys
\* (Python equality: a str never equals a datetime.date), once with a
\* missing value when there is none
RECURSIVE MergeHourly(_, _)
MergeHourly(daily, right) ==
    IF daily = << >>
    THEN << >>
    ELSE LET row == Head(daily)
             matches == SelectSeq(right,
                           LAMBDA h : h.location_id = row.location_id
                                      /\ h.date = row.date)
         IN  (IF matches = << >>
              THEN <<WithHourly(row, NaN)>>
              ELSE [n \in 1..Len(matches) |->
                       WithHourly(row, matches[n].hourly_temperature_avg)])
             \o MergeHourly(Tail(daily), right)

\* GroupBy 'last' of one column: the last value of the group, in row
\* order, that is not missing
LastOf(current_data, location_id, col) ==
    LET at == {n \in 1..Len(current_data) :
                  /\ current_data[n].location_id = location_id
                  /\ ~current_data[n][col].null}
    IN  IF at = {}
        THEN NaN
        ELSE current_data[CHOOSE n \in at : \A m \in at : m <= n][col]

\* lines 97-102: one row per location_id with the three 'last' aggregates
current_summary(current_data) ==
    LET keys == SortedSeq({current_data[n].location_id : n \in 1..Len(current_data)})
    IN  [g \in 1..Len(keys) |->
           [location_id |-> keys[g],
            latest_temperature |-> LastOf(current_data, keys[g], "temperature_2m"),
            latest_humidity |-> LastOf(current_data, keys[g], "relative_humidity_2m"),
            latest_wind_speed |-> LastOf(current_data, keys[g], "wind_speed_10m")]]

WithCurrent(row, t, h, w) ==
    [location_id |-> row.location_id, date |-> row.date,
     temperature_2m_max |-> row.temperature_2m_max,
     temperature_2m_min |-> row.temperature_2m_min,
     temperature_avg |-> row.temperature_avg,
     temperature_range |-> row.temperature_range,
     hourly_temperature_avg |-> row.hourly_temperature_avg,
     latest_temperature |-> t, latest_humidity |-> h, latest_wind_speed |-> w]

\* line 104: pd.merge(combined_data, current_summary, on='location_id',
\* how='left')
RECURSIVE MergeCurrent(_, _)
MergeCurrent(combined, right) ==
    IF combined = << >>
    THEN << >>
    ELSE LET row == Head(combined)
             matches == SelectSeq(right,
                           LAMBDA c : c.location_id = row.location_id)
         IN  (IF matches = << >>
              THEN <<WithCurrent(row, NaN, NaN, NaN)>>
              ELSE [n \in 1..Len(matches) |->
                       WithCurrent(row, matches[n].latest_temperature,
                                   matches[n].latest_humidity,
                                   matches[n].latest_wind_speed)])
             \o MergeCurrent(Tail(combined), right)

\* the daily rows drawn: location, day, maximum and minimum temperature
DailyChoices ==
    {<<1, 1, Num(3), Num(0)>>, <<1, 2, Num(4), Num(2)>>,
     <<2, 1, NaN, Num(1)>>, <<1, 1, Num(5), Num(5)>>}

DailyRow(c, rep) ==
    [location_id |-> c[1], date |-> DateCell(rep, c[2]),
     temperature_2m_max |-> c[3], temperature_2m_min |-> c[4]]

\* the date column of a daily frame is text when the frame comes from
\* load_db; a caller may also pass a frame holding datetime.date objects
DateReps == {"str", "date"}

DailyFrames ==
    UNION {{[r \in 1..n |-> DailyRow(cs[r], rep)] :
               cs \in [1..n -> DailyChoices], rep \in DateReps} :
           n \in 1..MaxWeatherRows}

Hourly(location_id, day, hour, t) ==
    [location_id |-> location_id, timestamp |-> [day |-> day, hour |-> hour],
     temperature_2m |-> t]

\* the hourly frames drawn: one reading, several readings of one day,
\* readings of two days, a missing reading, another location
HourlyFrames ==
    {<<Hourly(1, 1, 0, Num(2))>>,
     <<Hourly(1, 1, 0, Num(2)), Hourly(1, 1, 1, Num(5))>>,
     <<Hourly(1, 1, 0, Num(2)), Hourly(1, 2, 0, Num(4)), Hourly(1, 1, 1, Num(3))>>,
     <<Hourly(1, 2, 0, Num(4)), Hourly(1, 2, 1, NaN)>>,
     <<Hourly(2, 2, 0, Num(1)), Hourly(1, 1, 0, NaN)>>}

Current(location_id, timestamp, t, h, w) ==
    [location_id |-> location_id, timestamp |-> timestamp,
     temperature_2m |-> t, relative_humidity_2m |-> h, wind_speed_10m |-> w]

\* the current-weather readings drawn: timestamps 1 to 3 of location 1,
\* the latest one with a missing field in one of the choices
CurrentChoices ==
    {Current(1, 1, Num(6), Num(8), Num(1)),
     Current(1, 2, Num(5), Num(7), Num(9)),
     Current(1, 3, Num(4), NaN, Num(2))}

CurrentFrames ==
    UNION {[1..n -> CurrentChoices] : n \in 1..MaxWeatherRows}

InitWeather ==
    /\ src = [d \in Dbs |-> NoStore]
    /\ wh = NoWarehouse
    /\ pc = "main"
    /\ i = 0
    /\ j = 0
    /\ k = 0
    /\ tables = << >>
    /\ srcConn = {}
    /\ whConn = FALSE
    /\ log = << >>
    /\ hist = << >>
    /\ run = 0
    /\ prev = NoPrev
    /\ report = NoReport
    /\ raised = FALSE
    /\ peak = 0
    /\ ren = NoRen
    /\ soil = NoSoil
    /\ price = NoPrice
    /\ weather \in [stage : {"daily"}, daily_in : DailyFrames,
                    hourly_data : HourlyFrames, current_data : CurrentFrames,
                    daily_data : {<< >>}, hourly_temp_avg : {<< >>},
                    combined_data : {<< >>}, current_summary : {<< >>},
                    Weather_data : {<< >>}]

\* lines 88-89
DeriveDaily ==
    /\ weather.stage = "daily"
    /\ weather' = [weather EXCEPT
                     !.daily_data = [r \in 1..Len(weather.daily_in) |->
                                        DeriveDailyRow(weather.daily_in[r])],
                     !.stage = "hourly"]
    /\ UNCHANGED <<runVars, ren, soil, price>>

\* lines 91-93
HourlyMean ==
    /\ weather.stage = "hourly"
    /\ weather' = [weather EXCEPT
                     !.hourly_temp_avg = hourly_temp_avg(weather.hourly_data),
                     !.stage = "merge"]
    /\ UNCHANGED <<runVars, ren, soil, price>>

\* line 95
MergeHourlyMean ==
    /\ weather.stage = "merge"
    /\ weather' = [weather EXCEPT
                     !.combined_data = MergeHourly(weather.daily_data,
                                                   weather.hourly_temp_avg),
                     !.stage = "current"]
    /\ UNCHANGED <<runVars, ren, soil, price>>

\* lines 97-102
SummariseCurrent ==
    /\ weather.stage = "current"
    /\ weather' = [weather EXCEPT
                     !.current_summary = current_summary(weather.current_data),
                     !.stage = "final"]
    /\ UNCHANGED <<runVars, ren, soil, price>>

\* lines 104-105: the second merge, and the result saved as Weather_data
SaveWeather ==
    /\ weather.stage = "final"
    /\ weather' = [weather EXCEPT
                     !.Weather_data = MergeCurrent(weather.combined_data,
                                                   weather.current_summary),
                     !.stage = "done"]
    /\ UNCHANGED <<runVars, ren, soil, price>>

NextWeather ==
    \/ DeriveDaily
    \/ HourlyMean
    \/ MergeHourlyMean
    \/ SummariseCurrent
    \/ SaveWeather

SpecWeather == InitWeather /\ [][NextWeather]_vars

----------------------------------------------------------------------------
(* C1 *)

\* C1: the renaming of line 86 is injective: two distinct (store key, table
\* name) pairs, the keys taken from source_databases and the table names
\* arbitrary (underscores included), never get the same warehouse name.
C1_RenamingInjective ==
    (ren.stage = "out" /\ <<ren.db1, ren.t1>> # <<ren.db2, ren.t2>>)
        => ren.n1 # ren.n2

\* two stores whose keys share the prefix up to an underscore, with table
\* names that contain underscores, have been renamed
C1_Witness ==
    /\ ren.stage = "out"
    /\ ren.db1 = 1
    /\ ren.db2 = 4
    /\ ren.t1 = <<"d","a","t","a","_","a">>
    /\ ren.t2 = <<"_", "a">>
    /\ ren.n1 # ren.n2

----------------------------------------------------------------------------
(* What the history says about a run *)

HasStep(op, a, b, res) ==
    \E n \in 1..Len(hist) : hist[n] = Step(op, a, b, res)

Count(op, a, b) ==
    Cardinality({n \in 1..Len(hist) :
                    hist[n].op = op /\ hist[n].a = a /\ hist[n].b = b})

\* the warehouse holds the renamed copy of table n of store d with its rows
Copied(d, n) ==
    LET t == src[d].tables[n]
        nm == NewTableName(source_databases[d], t.name)
    IN  /\ HasTable(wh.tables, nm)
        /\ SameRows(TableOf(wh.tables, nm).rows, t.rows)

\* every table the run copied without a failure is in the warehouse
CopiedTablesKept ==
    \A n \in 1..Len(hist) :
        (hist[n].op = "table" /\ hist[n].res = "ok") => Copied(hist[n].a, hist[n].b)

RemoveFailed == \E n \in 1..Len(hist) : hist[n].op = "remove" /\ hist[n].res # "ok"

\* table and view names with the number of rows, per warehouse
Summary(w) ==
    [exists |-> w.exists,
     tables |-> {[name |-> tb.name, n |-> Len(tb.rows)] : tb \in w.tables},
     views |-> w.views]

----------------------------------------------------------------------------
(* C2 - C10 *)

\* C2: after create_warehouse_database completes, for every source store
\* that exists and every table it contains, whatever the table's name, the
\* warehouse holds a table {logical_name}_{table_name} with exactly the rows
\* of the source table. (Stated for runs in which the environment makes no
\* operation fail.)
C2_EveryTableCopied ==
    (pc = "returned" /\ ~Fatal /\ ~EnvFailed)
        => \A d \in Dbs : src[d].exists
              => \A n \in 1..Len(src[d].tables) : Copied(d, n)

\* C3: every table copied into the warehouse has, once its rows are copied,
\* the column order, column names and declared column types of its source
\* table.
C3_StructureKept ==
    \A n \in 1..Len(hist) :
        (hist[n].op = "table" /\ hist[n].res = "ok")
            => LET t == src[hist[n].a].tables[hist[n].b] IN
               TableOf(wh.tables,
                       NewTableName(source_databases[hist[n].a], t.name)).cols = t.cols

C5_RebuildIdempotent ==
    (pc = "done" /\ prev.valid /\ ~EnvFailed) => Summary(wh) = Summary(prev.wh)

\* a second run on unchanged sources has rebuilt a warehouse with a two-row
\* table and the three views
C5_Witness ==
    /\ pc = "done"
    /\ prev.valid
    /\ ~EnvFailed
    /\ run = 2
    /\ HasStep("remove", 0, 0, "ok")
    /\ \E tb \in wh.tables : Len(tb.rows) = 2
    /\ wh.views = 1..NViews

\* C6: when a configured store's file is absent the run skips it with a
\* warning and still completes, and every table of every other configured
\* store that is present is copied into the warehouse, wherever the missing
\* store stands in the configuration. (Stated for runs in which the
\* environment makes no operation fail.)
C6_MissingStoreSkipped ==
    (pc = "returned" /\ ~EnvFailed)
        => \A d \in Dbs : ~src[d].exists
              => /\ ~Fatal
                 /\ \E n \in 1..Len(log) : log[n] = Msg("missing", source_databases[d], 0)
                 /\ \A e \in Dbs \ {d} : src[e].exists
                       => \A n \in 1..Len(src[e].tables) : Copied(e, n)

\* C7: a failure while copying one table is logged and affects only that
\* table: the tables copied stay as they are, every remaining table of the
\* store and every later store is still attempted, and every view is
\* attempted.
C7_TableFailureIsolated ==
    /\ Cardinality({n \in 1..Len(log) : log[n].kind = "table_error"})
          = Cardinality({n \in 1..Len(hist) :
                            hist[n].op = "table" /\ hist[n].res # "ok"})
    /\ CopiedTablesKept
    /\ pc = "table" => \A b \in 1..Len(tables) :
                          Count("table", i, b) = IF b < j THEN 1 ELSE 0
    /\ (pc = "returned" /\ ~Fatal)
          => /\ \A d \in Dbs : HasStep("open", d, 0, "ok")
                    => /\ \A b \in 1..Len(src[d].tables) : Count("table", d, b) = 1
                       /\ HasStep("close", d, 0, "ok")
             /\ \A d \in Dbs : Count("skip", d, 0) + Count("open", d, 0) = 1
             /\ \A v \in 1..NViews : Count("view", v, 0) = 1

\* the first table of the first store failed, the second table of that
\* store and a table of the next store were copied, and the run returned
C7_Witness ==
    /\ pc = "returned"
    /\ ~Fatal
    /\ \E res \in {"fail", "envfail"} : HasStep("table", 1, 1, res)
    /\ HasStep("table", 1, 2, "ok")
    /\ HasStep("table", 2, 1, "ok")
    /\ \A v \in 1..NViews : Count("view", v, 0) = 1

\* C8: each of the three views is attempted exactly once; a view that fails
\* neither stops the other views from being attempted nor removes a copied
\* table; the views are attempted also when table copies failed.
C8_ViewFailureIsolated ==
    /\ pc = "views" => \A v \in 1..NViews :
                          Count("view", v, 0) = IF v < k THEN 1 ELSE 0
    /\ (pc \in {"commit", "close_wh"} \/ (pc \in {"returned", "done"} /\ ~Fatal))
          => /\ \A v \in 1..NViews : Count("view", v, 0) = 1
             /\ wh.views = {v \in 1..NViews : HasStep("view", v, 0, "ok")}
    /\ pc \in {"views", "commit", "close_wh", "returned", "done"} => CopiedTablesKept

\* the first view failed and the other two were created, after a run in
\* which one table copy failed and another succeeded
C8_Witness ==
    /\ pc = "returned"
    /\ HasStep("view", 1, 0, "envfail")
    /\ wh.views = {2, 3}
    /\ \E n \in 1..Len(hist) : hist[n].op = "table" /\ hist[n].res # "ok"
    /\ \E n \in 1..Len(hist) : hist[n].op = "table" /\ hist[n].res = "ok"
    /\ wh.tables # {}

\* C9: a failure to delete, create or open the warehouse is fatal: no store
\* is processed, no view is created, and the call ends in a failure that
\* main can tell from a successful run; no other failure ends the run in
\* failure.
C9_FatalIsDistinguishable ==
    pc = "returned"
        => /\ Fatal <=> \E n \in 1..Len(hist) :
                           hist[n].op \in {"remove", "connect"} /\ hist[n].res = "envfail"
           /\ Fatal => \A n \in 1..Len(hist) : hist[n].op \in {"remove", "connect"}
           /\ Fatal <=> raised

\* C10: the final report lists every table and view of the warehouse with
\* its row count, and every store or table that was skipped or failed
\* appears in that report as a warning.
C10_ReportComplete ==
    pc = "done"
        => /\ \A tb \in wh.tables : \E e \in report.schema : e.name = tb.name
           /\ \A v \in wh.views : \E e \in report.schema : e.name = views[v].name
           /\ \A e \in report.schema : "rows" \in DOMAIN e
           /\ \A n \in 1..Len(hist) :
                 (hist[n].op = "skip" \/ hist[n].res # "ok")
                    => \E e \in report.schema :
                          /\ "warning" \in DOMAIN e
                          /\ e.name = source_databases[hist[n].a]

----------------------------------------------------------------------------
(* C11 *)

\* C11: no step of a run changes a source store: the tables and the rows of
\* every store are after each step what they were before it, on every path,
\* table-copy and view failures included.
C11_SourcesUntouched == [][src' = src]_vars

\* a run over a store with rows has returned after a table copy and a view
\* both failed
C11_Witness ==
    /\ pc = "returned"
    /\ ~Fatal
    /\ \E d \in Dbs : src[d].exists /\ \E n \in 1..Len(src[d].tables) :
                                          Len(src[d].tables[n].rows) > 0
    /\ \E n \in 1..Len(hist) : hist[n].op = "table" /\ hist[n].res # "ok"
    /\ \E n \in 1..Len(hist) : hist[n].op = "view" /\ hist[n].res # "ok"
    /\ \E n \in 1..Len(hist) : hist[n].op = "table" /\ hist[n].res = "ok"

----------------------------------------------------------------------------
(* C20 *)

StoreSteps == {"open", "skip"}

\* the order of the steps taken so far: the removal before the warehouse is
\* opened, the stores in configuration order, the tables of a store and its
\* close before any later store, the views after every configured store
PhaseOrder ==
    /\ \A m, n \in 1..Len(hist) :
          hist[m].op = "remove" /\ hist[n].op = "connect" => m < n
    /\ \A m, n \in 1..Len(hist) :
          /\ hist[m].op \in StoreSteps
          /\ hist[n].op \in StoreSteps
          /\ m < n
          => hist[m].a < hist[n].a
    /\ \A m, n \in 1..Len(hist) :
          /\ hist[m].op \in {"table", "close"}
          /\ hist[n].op \in StoreSteps
          => IF hist[m].a < hist[n].a THEN m < n ELSE n < m
    /\ \A n \in 1..Len(hist) :
          hist[n].op \in {"view", "commit"}
          => \A d \in Dbs : \E m \in 1..(n - 1) :
                hist[m].op \in StoreSteps /\ hist[m].a = d

\* C20: the phases of a run come in a fixed order (removal, opening of the
\* warehouse, the stores one at a time in configuration order, then the
\* views), a store being opened only once the previous one is closed: at no
\* point are two source connections open together.
C20_OneStoreAtATime ==
    /\ PhaseOrder
    /\ peak <= 1

----------------------------------------------------------------------------
(* C12, C13 *)

\* the level columns of a category: the columns named after the nutrient,
\* an underscore and a level
CategoryColumns(df, nutrient) ==
    {c \in 1..Len(df.cols) : StartsWith(df.cols[c], nutrient \o <<"_">>)}

\* every label stored for a row with a non-null level is the level of the
\* first column, in declared order, holding the greatest non-null value
LabelIsMaxLevel(df, results) ==
    \A n \in 1..Len(results) : \A r \in 1..Len(df.rows) :
        LET cat == CategoryColumns(df, results[n].nutrient)
            row == df.rows[r]
        IN  (\E c \in cat : ~isnull(row[c]))
            => \E c \in cat :
                  /\ ~isnull(row[c])
                  /\ \A d \in cat : isnull(row[d]) \/ row[d].v <= row[c].v
                  /\ \A d \in cat : d < c => (isnull(row[d]) \/ row[d].v < row[c].v)
                  /\ results[n].labels[r] = SplitLast(df.cols[c])

\* C12: for every nutrient category and every row with at least one non-null
\* level column of the category, the label is the part after the last "_"
\* of the name of the column holding the greatest of the row's non-null
\* values for that category, the first such column in declared order on a tie.
C12_LabelIsLevelOfMaximum ==
    /\ LabelIsMaxLevel(soil.macro_df, soil.macro_results)
    /\ LabelIsMaxLevel(soil.micro_df, soil.micro_results)

\* a row whose level columns of the category are all null is labelled
\* Unknown, and a label other than Unknown names a column that is not null
UnknownIffAllNull(df, results) ==
    \A n \in 1..Len(results) : \A r \in 1..Len(df.rows) :
        LET cat == CategoryColumns(df, results[n].nutrient)
            row == df.rows[r]
            label == results[n].labels[r]
        IN  /\ (\A c \in cat : isnull(row[c])) => label = Unknown
            /\ label # Unknown
                  => \E c \in 1..Len(df.cols) :
                        ~isnull(row[c]) /\ label = SplitLast(df.cols[c])

\* C13: for every nutrient category and every row in which all the level
\* columns of the category are null the label is "Unknown", never a level
\* name; a null is never taken as the maximum when another column is not null.
C13_AllNullIsUnknown ==
    /\ UnknownIffAllNull(soil.macro_df, soil.macro_results)
    /\ UnknownIffAllNull(soil.micro_df, soil.micro_results)

----------------------------------------------------------------------------
(* C14, C15 *)

InVocabulary(label) == \E c \in 1..NChoices : standard_commodities[c] = label

\* C14: whatever the commodity and variety texts (empty text and text with
\* no recognised entity included), match_commodity_entity returns a member
\* of standard_commodities: it never raises and never returns no value.
C14_LabelInVocabulary ==
    /\ ~price.raised
    /\ \A n \in 1..Len(price.labels) : InVocabulary(price.labels[n])

\* a row with an empty commodity and an empty variety was matched on its
\* text, and a row in which an entity was recognised was matched on it
C14_Witness ==
    /\ Len(price.labels) = 2
    /\ combined_text(price.df.rows[1][ColumnIndex(price.df, "Commodity")],
                     price.df.rows[1][ColumnIndex(price.df, "Variety")]) = << >>
    /\ price.paths = <<"text", "entity">>
    /\ price.labels[2] # price.labels[1]

\* the words of the Variety cell of input row r
RawVariety(r) == price.input.rows[r][ColumnIndex(price.input, "Variety")]

\* the frame saved keeps the rows, has none of the dropped columns, has a
\* label of the vocabulary as Commodity
PriceOutputShape ==
    price.stage = "done"
    => /\ Len(price.crop_prices.rows) = Len(price.input.rows)
       /\ \A name \in DroppedCols : ColumnIndex(price.crop_prices, name) = 0
       /\ \A r \in 1..Len(price.crop_prices.rows) :
             /\ price.crop_prices.rows[r][ColumnIndex(price.crop_prices, "Commodity")].t
                   = "text"
             /\ InVocabulary(
                   price.crop_prices.rows[r][ColumnIndex(price.crop_prices, "Commodity")].v)

\* C15: in the table transform_crop_price saves, the raw commodity and the
\* raw variety of every row are replaced by the one canonical label: no
\* column still carries the raw variety text, the columns Market, Grade,
\* Arrival_Date and Modal_Price are absent and the rows are as many as the
\* input rows.
C15_RawTextReplaced ==
    /\ PriceOutputShape
    /\ price.stage = "done"
       => \A r \in 1..Len(price.crop_prices.rows) :
             RawVariety(r).t = "text" /\ RawVariety(r).v # << >>
             => \A c \in 1..Len(price.crop_prices.cols) :
                   price.crop_prices.rows[r][c] # RawVariety(r)

----------------------------------------------------------------------------
(* C16, C17, C18, C19 *)

\* the hourly readings of a location on a calendar day
ReadingsOn(location_id, day) ==
    SelectSeq(weather.hourly_data,
              LAMBDA h : h.location_id = location_id /\ h.timestamp.day = day)

\* output row r is daily row r
SameDailyRow(out, in) ==
    /\ out.location_id = in.location_id
    /\ out.date = in.date
    /\ out.temperature_2m_max = in.temperature_2m_max
    /\ out.temperature_2m_min = in.temperature_2m_min

\* C16: every row of the daily table appears exactly once in the output of
\* transform_weather_data, whatever the hourly and current tables hold
\* (several hourly readings a day and several current readings a location
\* included), and a daily row without any hourly reading for its location
\* and date has a missing hourly_temperature_avg.
C16_DailyRowsOnce ==
    /\ weather.stage \in {"current", "final", "done"}
       => /\ Len(weather.combined_data) = Len(weather.daily_in)
          /\ \A r \in 1..Len(weather.daily_in) :
                /\ SameDailyRow(weather.combined_data[r], weather.daily_in[r])
                /\ ReadingsOn(weather.daily_in[r].location_id,
                              weather.daily_in[r].date.day) = << >>
                   => weather.combined_data[r].hourly_temperature_avg.null
    /\ weather.stage = "done"
       => /\ Len(weather.Weather_data) = Len(weather.daily_in)
          /\ \A r \in 1..Len(weather.daily_in) :
                /\ SameDailyRow(weather.Weather_data[r], weather.daily_in[r])
                /\ weather.Weather_data[r].hourly_temperature_avg
                      = weather.combined_data[r].hourly_temperature_avg

\* a daily frame of two rows was merged: the first row has two hourly
\* readings on its day and got their mean, the second has none and got a
\* missing value; the location has two current readings
C16_Witness ==
    /\ weather.stage = "done"
    /\ Len(weather.daily_in) = 2
    /\ Len(ReadingsOn(weather.daily_in[1].location_id,
                      weather.daily_in[1].date.day)) = 2
    /\ ~weather.Weather_data[1].hourly_temperature_avg.null
    /\ ReadingsOn(weather.daily_in[2].location_id,
                  weather.daily_in[2].date.day) = << >>
    /\ weather.Weather_data[2].hourly_temperature_avg.null
    /\ Len(weather.current_data) = 2
    /\ ~weather.Weather_data[1].latest_temperature.null

\* C17: in every saved row temperature_avg is (temperature_2m_max +
\* temperature_2m_min) / 2 and temperature_range is temperature_2m_max -
\* temperature_2m_min of the daily row it comes from (missing when one of
\* the two is missing).
C17_AvgAndRange ==
    weather.stage = "done"
    => \A r \in 1..Len(weather.daily_in) :
          /\ r <= Len(weather.Weather_data)
          /\ LET hi == weather.daily_in[r].temperature_2m_max
                 lo == weather.daily_in[r].temperature_2m_min
                 avg == weather.Weather_data[r].temperature_avg
                 range == weather.Weather_data[r].temperature_range
             IN  IF hi.null \/ lo.null
                 THEN avg.null /\ range.null
                 ELSE /\ ~avg.null
                      /\ ~range.null
                      /\ 2 * avg.n * hi.d * lo.d = (hi.n * lo.d + lo.n * hi.d) * avg.d
                      /\ range.n * hi.d * lo.d = (hi.n * lo.d - lo.n * hi.d) * range.d

\* a saved row with maximum 3 and minimum 0 carries the average 3/2 and the
\* range 3
C17_Witness ==
    /\ weather.stage = "done"
    /\ \E r \in 1..Len(weather.Weather_data) :
          /\ weather.Weather_data[r].temperature_2m_max = Num(3)
          /\ weather.Weather_data[r].temperature_2m_min = Num(0)
          /\ weather.Weather_data[r].temperature_avg = Frac(3, 2)
          /\ weather.Weather_data[r].temperature_range = Num(3)

\* the current readings of a location with the greatest timestamp
LatestReadings(location_id) ==
    {n \in 1..Len(weather.current_data) :
        /\ weather.current_data[n].location_id = location_id
        /\ \A m \in 1..Len(weather.current_data) :
              weather.current_data[m].location_id = location_id
              => weather.current_data[m].timestamp
                    <= weather.current_data[n].timestamp}

\* C18: for every location the three latest_ values of a saved row are
\* those of one reading, the reading of the location with the greatest
\* timestamp, whatever the order of the rows of the current-weather table
\* and whether or not readings have missing fields.
C18_LatestFromNewestReading ==
    weather.stage = "done"
    => \A r \in 1..Len(weather.Weather_data) :
          LatestReadings(weather.Weather_data[r].location_id) # {}
          => \E n \in LatestReadings(weather.Weather_data[r].location_id) :
                /\ weather.Weather_data[r].latest_temperature
                      = weather.current_data[n].temperature_2m
                /\ weather.Weather_data[r].latest_humidity
                      = weather.current_data[n].relative_humidity_2m
                /\ weather.Weather_data[r].latest_wind_speed
                      = weather.current_data[n].wind_speed_10m

\* the mean of temperature_2m over the hourly readings of a location on a
\* calendar day
MeanOn(location_id, day) ==
    LET group == ReadingsOn(location_id, day)
    IN  mean([n \in 1..Len(group) |-> group[n].temperature_2m])

\* C19: a daily row whose location has an hourly reading on the row's
\* calendar date carries, as hourly_temperature_avg, the mean of
\* temperature_2m over exactly those readings, whatever representation the
\* daily table uses for its date.
C19_HourlyMeanOfTheDay ==
    weather.stage = "done"
    => \A r \in 1..Len(weather.daily_in) :
          /\ r <= Len(weather.Weather_data)
          /\ ReadingsOn(weather.daily_in[r].location_id,
                        weather.daily_in[r].date.day) # << >>
             => weather.Weather_data[r].hourly_temperature_avg
                   = MeanOn(weather.daily_in[r].location_id,
                            weather.daily_in[r].date.day)

(* C21 *)

\* the source connections open although their store's processing is over
LeftOpen == IF pc = "table" THEN srcConn \ {i} ELSE srcConn

\* C21: every connection create_warehouse_database opened is closed when it
\* returns: no source connection is open once its store's processing is
\* over, whichever way it ended, and neither a source connection nor the
\* warehouse connection is open after the return.
C21_ConnectionsClosed ==
    /\ LeftOpen = {}
    /\ pc \in {"returned", "done"} => ~whConn

\* the warehouse connection is closed on every path out of the run, a
\* failure inside view creation included
WarehouseClosed == pc \in {"returned", "done", "main"} => ~whConn

(* C22 *)

\* the output table has one row per input row; row r carries the id, block
\* and district of input row r and, for each category of the output, the
\* label the classifier gives input row r
RowsKept(df, out) ==
    /\ Len(out.rows) = Len(df.rows)
    /\ \A r \in 1..Len(df.rows) :
          /\ out.rows[r].ident =
                [c \in 1..Len(other_columns) |->
                    df.rows[r][ColumnIndex(df, other_columns[c])]]
          /\ \A m \in 1..Len(out.rows[r].labels) :
                LET nutrient == out.cols[Len(other_columns) + m]
                IN  out.rows[r].labels[m] =
                       determine_macronutrient_level(
                           df, NutrientColumns(df, nutrient), df.rows[r])

\* C22: each output table of transform_soil_nutrient_levels has exactly one
\* row per input row; every output row has the id, block and district of
\* the same input row, unchanged, and its labels are computed from that
\* same input row.
C22_RowsAndIdentifiersKept ==
    soil.stage = "done"
    => /\ RowsKept(soil.macro_df, soil.Macro_nutrients)
       /\ RowsKept(soil.micro_df, soil.Micro_nutrients)

\* C22: a saved macro table of two rows whose identifiers differ and whose
\* label of some category differs from one row to the other
C22_Witness ==
    /\ soil.stage = "done"
    /\ Len(soil.Macro_nutrients.rows) = 2
    /\ soil.Macro_nutrients.rows[1].ident # soil.Macro_nutrients.rows[2].ident
    /\ \E m \in 1..Len(soil.macro_results) :
          /\ soil.Macro_nutrients.rows[1].labels[m] # soil.Macro_nutrients.rows[2].labels[m]
          /\ soil.Macro_nutrients.rows[1].labels[m] # Unknown
          /\ soil.Macro_nutrients.rows[2].labels[m] # Unknown

(* C23 *)

\* the list of categories without the one at position n
Without(categories, n) ==
    [m \in 1..(Len(categories) - 1) |->
        IF m < n THEN categories[m] ELSE categories[m + 1]]

RECURSIVE Classified(_, _, _)
\* the results the loops of lines 187-200 and 202-215 store for the first n
\* of the categories configured
Classified(df, categories, n) ==
    IF n = 0
    THEN << >>
    ELSE LET columns == NutrientColumns(df, categories[n])
             before == Classified(df, categories, n - 1)
         IN  IF columns = {}
             THEN before
             ELSE Append(before,
                         [nutrient |-> categories[n],
                          labels |-> [r \in 1..Len(df.rows) |->
                                        determine_macronutrient_level(
                                            df, columns, df.rows[r])]])

\* every category without a column in the input is reported and has no
\* column in the output, and the labels stored are those stored with the
\* category left out of the configuration
SkippedCleanly(df, categories, results, out, printed) ==
    \A n \in 1..Len(categories) :
        NutrientColumns(df, categories[n]) = {}
        => /\ ColumnIndex(out, categories[n]) = 0
           /\ \E p \in 1..Len(printed) : printed[p] = categories[n]
           /\ results = Classified(df, Without(categories, n), Len(categories) - 1)

\* C23: a configured category with no column in the input table is skipped
\* without raising: the function runs to its end, the output table has no
\* column for the category, and the labels of every other category are
\* those obtained with the skipped category not configured.
C23_MissingCategorySkipped ==
    soil.stage = "done"
    => /\ SkippedCleanly(soil.macro_df, macronutrient_categories, soil.macro_results,
                         soil.Macro_nutrients, soil.printed)
       /\ SkippedCleanly(soil.micro_df, micronutrient_categories, soil.micro_results,
                         soil.Micro_nutrients, soil.printed)

\* C23: the tables are saved after potassium, which has no column in the
\* macro table, was skipped and nitrogen, which has, was given a level
C23_Witness ==
    /\ soil.stage = "done"
    /\ NutrientColumns(soil.macro_df, macronutrient_categories[3]) = {}
    /\ \E p \in 1..Len(soil.printed) : soil.printed[p] = macronutrient_categories[3]
    /\ \E m \in 1..Len(soil.macro_results) :
          /\ soil.macro_results[m].nutrient = macronutrient_categories[1]
          /\ soil.macro_results[m].labels[1] # Unknown

(* C24 *)

\* the labels stored for a category are those of every table with the same
\* columns and rows that has the same values in the level columns of that
\* category, whatever its other columns hold
OwnColumnsOnly(df, results, frames) ==
    \A n \in 1..Len(results) : \A other \in frames :
        LET nutrient == results[n].nutrient
            own == CategoryColumns(df, nutrient)
        IN  (/\ other.cols = df.cols
             /\ Len(other.rows) = Len(df.rows)
             /\ \A r \in 1..Len(df.rows) : \A c \in own :
                    other.rows[r][c] = df.rows[r][c])
            => \A r \in 1..Len(df.rows) :
                  determine_macronutrient_level(
                      other, NutrientColumns(other, nutrient), other.rows[r])
                  = results[n].labels[r]

\* C24: the label emitted for a nutrient category depends only on the level
\* columns of that category: changing the values of the columns of another
\* category (the phosphorous_* columns, say) never changes the label of a
\* different category (ph).
C24_LabelDependsOnOwnColumns ==
    /\ OwnColumnsOnly(soil.macro_df, soil.macro_results, MacroFrames)
    /\ OwnColumnsOnly(soil.micro_df, soil.micro_results, MicroFrames)

\* the same for every category but ph
OwnColumnsOnlyButPh ==
    OwnColumnsOnly(soil.macro_df,
                   SelectSeq(soil.macro_results,
                             LAMBDA res : res.nutrient # macronutrient_categories[6]),
                   MacroFrames)

(* C25 *)

\* a warehouse table that holds all the rows of the table of a store it is
\* named after
HoldsSourceRows(s, tb) ==
    \E d \in Dbs :
        /\ s[d].exists
        /\ \E n \in 1..Len(s[d].tables) :
              /\ tb.name = NewTableName(source_databases[d], s[d].tables[n].name)
              /\ SameRows(tb.rows, s[d].tables[n].rows)

\* C25: after create_warehouse_database completes, every table present in
\* the warehouse holds all rows of its source table: a table whose copy
\* failed part-way, after its CREATE TABLE succeeded and before its rows
\* were written, is not left in the warehouse empty or partial.
C25_NoPartialTable ==
    (pc \in {"returned", "done"} /\ ~Fatal)
    => \A tb \in wh.tables : HoldsSourceRows(src, tb)

\* the same for the runs in which no table copy failed
CompleteWhenNoCopyFailed ==
    (/\ pc \in {"returned", "done"}
     /\ ~Fatal
     /\ \A n \in 1..Len(hist) : hist[n].op = "table" => hist[n].res = "ok")
    => \A tb \in wh.tables : HoldsSourceRows(src, tb)

\* the same for the runs in which the environment made no operation fail
CompleteWithoutFault ==
    (pc \in {"returned", "done"} /\ ~Fatal /\ ~EnvFailed)
    => \A tb \in wh.tables : HoldsSourceRows(src, tb)

====
